---- MODULE Spec2Model ----
(***************************************************************************)
(* Race simulation engine of rally-game (GameEngine, the countdown /       *)
(* checkpoint / drift variant in src/src/app/layout.tsx).                  *)
(*                                                                         *)
(* Numbers are fixed point: times in ms, lengths in 1/1000 track unit,     *)
(* speeds in 1/1000 unit per second, angles in 1/1000 rad, ratios and      *)
(* trigonometric values in 1/1000.  A curve parameter t is kept as the     *)
(* numerator of t over Samples (t = n / 240).                              *)
(***************************************************************************)
EXTENDS Integers, Sequences, FiniteSets, Bags, TLC

VARIABLES
    raceState,          \* 'countdown' | 'racing' | 'finished'
    countdownStep,      \* 3, 2, 1, 0
    countdownTimer,     \* ms accumulated towards the next step
    timerActive,
    startTimeMs,
    elapsedMs,
    lastUpdateTime,     \* timestamp of the last frame
    currentLap,
    lastCarT,           \* numerator over Samples
    lapStartMs,
    passed,             \* checkpointStates[i].passed, i in 1..NumCp
    bestSplits,         \* bestSplits[i], Null or Some(ms)
    bestTotalTime,
    lapCheckpointIndex,
    input,              \* [forward, backward, left, right]
    physics,            \* [x, z, heading, speed, lateralVel]
    events,             \* callbacks invoked by the last frame or restart, in order
    calls,              \* subsystems invoked by the last frame or restart, in order
    runFinishes,        \* onFinish calls since the last (re)start
    lapCpLog,           \* checkpoint indices triggered since the last flag reset
    cdLog,              \* countdown steps emitted since the last (re)start
    sinceStep,          \* clamped tick time (ms) since the last countdown step
    sinceStart,         \* clamped countdown tick time (ms) since the last (re)start
    raceFrames,         \* frames run after the go frame in this run
    oddFrames,          \* frames so far whose gap was not FrameMs
    simMs,              \* tick deltas (ms) handed to updatePhysics since the go
    bumped,             \* the last frame's boundary collision moved the car
    frameRequested,     \* the request of animationId is pending in the browser
    listening,          \* the keydown / keyup handlers are registered on window
    destroyedIn,        \* "no", or where destroy() was first called: "frame", "idle"
    answers,            \* what the getters returned since the last step, or Null
    built,              \* the configuration given to the constructor, its outcome
    lastProgress,       \* lap-based variant: progress at the last lap check, over LapSamples
    progressAtCheckpoint, \* lap-based variant: the lap was counted, mid-track not yet seen
    lapsSinceMid,       \* lap-based variant: laps counted since mid-track was last seen
    hudRaceState,       \* GameCanvas: the raceState of the component
    hudBestTime,        \* GameCanvas: the bestTime of the component, Null or Some(ms)
    finishTime,         \* GameCanvas: the finishTime of the component
    showLeaderboard,    \* GameCanvas: the leaderboard overlay is open
    posted,             \* time_ms of the POSTs FinishScreen has sent since the last restart
    supabase,           \* leaderboard API: the Supabase client is configured
    leaderboard,        \* the rows of the leaderboard table, a bag of [map_id, time_ms]
    response            \* what the last /api/leaderboard request returned, or Null

engineVars == << raceState, countdownStep, countdownTimer, timerActive, startTimeMs,
                 elapsedMs, lastUpdateTime, currentLap, lastCarT, lapStartMs, passed,
                 bestSplits, bestTotalTime, lapCheckpointIndex, physics >>

traceVars == << events, calls, runFinishes, lapCpLog, cdLog, sinceStep, sinceStart,
                raceFrames, oddFrames, simMs, bumped >>

hostVars == << frameRequested, listening, destroyedIn, answers, built >>

lapVars == << lastProgress, progressAtCheckpoint, lapsSinceMid >>

hudVars == << hudRaceState, hudBestTime, finishTime, showLeaderboard, posted >>

boardVars == << supabase, leaderboard, response >>

vars == << engineVars, input, traceVars, hostVars, lapVars, boardVars, hudVars >>

-----------------------------------------------------------------------------
(* Bounds of the model *)

MaxClockFrames == 66    \* frames of FrameMs the frame clock may reach
MaxJitterFrames == 61   \* the same, in the countdown with early frames
MaxSessionFrames == 130 \* the same, in a session of several runs
MaxRaceFrames == 5      \* frames explored after the go frame in one run
MaxOddFrames == 2       \* frames whose gap is not FrameMs in one behaviour
MaxPauseFrames == 71    \* the same, in a run with late frames
MaxWaypoints == 4       \* waypoints of a track handed to the constructor
MaxHostFrames == 62     \* frames of FrameMs the clock may reach before destroy()
MaxPosts == 2           \* POSTs of FinishScreen explored between two restarts
MaxEarlyFrames == 3     \* frames of FrameMs after which restart() is no longer called

(* Fixed-point scale *)
Milli == 10 * 10 * 10

(* Nullable numbers: null / undefined is the empty box *)
Null == << >>
Some(v) == << v >>

\* no leaderboard API beside the engine
BoardIdle ==
    /\ supabase = FALSE
    /\ leaderboard = EmptyBag
    /\ response = Null
Val(b) == b[1]

-----------------------------------------------------------------------------
(* Configuration handed to the constructor *)

\* mapConfig.waypoints, [x, z] in 1/1000 unit: a diamond of radius 3
Waypoints == << <<-3000, 0>>, <<0, 3000>>, <<3000, 0>>, <<0, -3000>> >>
\* mapConfig.trackWidth = 2.45
TrackWidth == 2450
\* mapConfig.laps
TotalLaps == 2
\* mapConfig.checkpoints = [0.125, 0.13333], as numerators over Samples
Checkpoints == << 30, 32 >>
\* carConfig.speed, carConfig.handling (1..5)
CarSpeed == 3
CarHandling == 3

NumWp == Len(Waypoints)
NumCp == Len(Checkpoints)

-----------------------------------------------------------------------------
(* Arithmetic helpers *)

Abs(a) == IF a < 0 THEN -a ELSE a
Sign(a) == IF a > 0 THEN 1 ELSE IF a < 0 THEN -1 ELSE 0
Min(a, b) == IF a < b THEN a ELSE b
Max(a, b) == IF a > b THEN a ELSE b

\* a / b rounded to the nearest integer (b > 0)
RoundDiv(a, b) ==
    IF a >= 0 THEN (2 * a + b) \div (2 * b)
    ELSE -((2 * (-a) + b) \div (2 * b))

RECURSIVE SqrtIter(_, _)
SqrtIter(n, r) ==
    LET nr == (r + n \div r) \div 2
    IN  IF nr >= r THEN r ELSE SqrtIter(n, nr)

\* floor of the square root
ISqrt(n) == IF n <= 0 THEN 0 ELSE SqrtIter(n, n)

\* Math.sin / Math.cos of an angle in 1/1000 rad, result in 1/1000
PiMilli == RoundDiv(355 * Milli, 113)
SinSmall(x) ==
    \* |x| <= pi/2: Taylor polynomial x - x^3/6 + x^5/120 - x^7/5040
    LET x2 == RoundDiv(x * x, Milli)
        x3 == RoundDiv(x * x2, Milli)
        x5 == RoundDiv(x3 * x2, Milli)
        x7 == RoundDiv(x5 * x2, Milli)
    IN  x - RoundDiv(x3, 6) + RoundDiv(x5, 120) - RoundDiv(x7, 5040)

Wrap(h) ==
    \* h reduced to (-pi, pi]
    LET m == (h + PiMilli) % (2 * PiMilli)
    IN  m - PiMilli

Sin(h) ==
    LET w == Wrap(h)
    IN  IF w > PiMilli \div 2 THEN SinSmall(PiMilli - w)
        ELSE IF w < -(PiMilli \div 2) THEN SinSmall(-PiMilli - w)
        ELSE SinSmall(w)

Cos(h) == Sin(h + PiMilli \div 2)

\* Math.atan2(x, z): the angle h with (sin h, cos h) along (x, z), found where
\* the cross product of (sin h, cos h) and (x, z) changes sign
Atan2(x, z) ==
    CHOOSE h \in -PiMilli + 1 .. PiMilli :
        /\ Sin(h) * x + Cos(h) * z > 0
        /\ Sin(h) * z - Cos(h) * x >= 0
        /\ Sin(h - 1) * z - Cos(h - 1) * x < 0

-----------------------------------------------------------------------------
(* Track curve: THREE.CatmullRomCurve3(points3D, closed = true,            *)
(* 'catmullrom', tension 0.5)                                              *)

Samples == 240          \* findClosestT: samples
Density == 24           \* buildTrack: divisions = wp.length * 24

\* computeCenter: mean of the waypoints
Center ==
    LET SumOf(k) == LET RECURSIVE S(_)
                        S(i) == IF i = 0 THEN 0 ELSE Waypoints[i][k] + S(i - 1)
                    IN  S(NumWp)
    IN  << RoundDiv(SumOf(1), NumWp), RoundDiv(SumOf(2), NumWp) >>

\* points3D[i] (0-based index taken modulo the number of waypoints)
Point3D(i) ==
    LET w == Waypoints[(i % NumWp) + 1]
    IN  << w[1] - Center[1], w[2] - Center[2] >>

\* CubicPoly.initCatmullRom(x0, x1, x2, x3, 0.5).calc(w), w = wn / wd
CatmullRom(x0, x1, x2, x3, wn, wd) ==
    LET t0 == (x2 - x0)             \* twice the tangent at x1
        t1 == (x3 - x1)             \* twice the tangent at x2
        c0 == 2 * x1                \* all coefficients doubled
        c1 == t0
        c2 == -6 * x1 + 6 * x2 - 2 * t0 - t1
        c3 == 4 * x1 - 4 * x2 + t0 + t1
        h3 == c2 + RoundDiv(c3 * wn, wd)
        h2 == c1 + RoundDiv(h3 * wn, wd)
        h1 == c0 + RoundDiv(h2 * wn, wd)
    IN  RoundDiv(h1, 2)

\* spline.getPoint(t), t = tn / td in [0, 1], closed curve
GetPoint(tn, td) ==
    LET p  == NumWp * tn
        ip == p \div td
        wn == p % td
        ii == IF ip > 0 THEN ip ELSE ip + NumWp
        p0 == Point3D(ii - 1)
        p1 == Point3D(ii)
        p2 == Point3D(ii + 1)
        p3 == Point3D(ii + 2)
    IN  << CatmullRom(p0[1], p1[1], p2[1], p3[1], wn, td),
           CatmullRom(p0[2], p1[2], p2[2], p3[2], wn, td) >>

\* 2 x the derivative of the curve at a waypoint: the direction
\* spline.getTangent(t) returns there (before normalize())
TangentAtWaypoint(i) ==
    << Point3D(i + 1)[1] - Point3D(i - 1 + NumWp)[1],
       Point3D(i + 1)[2] - Point3D(i - 1 + NumWp)[2] >>

\* the curve at the findClosestT samples, i in 0..Samples
SampleTable == [i \in 0 .. Samples |-> GetPoint(i, Samples)]

\* squared distance between two ground-plane points
Dist2(a, b) == (a[1] - b[1]) * (a[1] - b[1]) + (a[2] - b[2]) * (a[2] - b[2])
\* Vector2.distanceTo
Dist(a, b) == ISqrt(Dist2(a, b))

\* the first sample of minimum distance among the samples lo..hi
RECURSIVE ClosestIn(_, _, _)
ClosestIn(pos, lo, hi) ==
    IF lo = hi THEN lo
    ELSE LET mid == (lo + hi) \div 2
             a   == ClosestIn(pos, lo, mid)
             b   == ClosestIn(pos, mid + 1, hi)
         IN  IF Dist2(pos, SampleTable[b]) < Dist2(pos, SampleTable[a]) THEN b ELSE a

\* findClosestT with the fault of d <= minDist: a later sample at the same
\* distance replaces the earlier one
FindClosestTLast(pos) ==
    LET Ties == { i \in 0 .. Samples :
                    Dist2(pos, SampleTable[i])
                        = Dist2(pos, SampleTable[ClosestIn(pos, 0, Samples)]) }
    IN  CHOOSE i \in Ties : \A j \in Ties : j <= i

\* findClosestT: the scan i = 0..samples keeps the first sample of minimum
\* distance (d < minDist is strict)
FindClosestT(pos) == ClosestIn(pos, 0, Samples)

-----------------------------------------------------------------------------
(* updatePhysics: parameters *)

speedBoost == 900 + (CarSpeed - 1) * 180
handlingBoost == 700 + (CarHandling - 1) * 160
maxSpeed == 28 * speedBoost
accel == 22 * speedBoost
brakeForce == 32000
rollFriction == 4000
steerMax == RoundDiv(2200 * handlingBoost, Milli)
lateralGrip == 2500 + (CarHandling - 1) * 500
driftAccum == 6000 + (5 - CarHandling) * 1200
maxReverse == RoundDiv(maxSpeed * 35, 100)
maxLateral == RoundDiv(maxSpeed * 75, 100)
halfWidth == RoundDiv(TrackWidth, 2)

\* speedRatio = |speed| / maxSpeed, in 1/1000
SpeedRatio(speed) == RoundDiv(Abs(speed) * Milli, maxSpeed)

\* Throttle with the fault of letting forward win over backward
ThrottleForwardWins(inp) == IF inp.forward THEN 1 ELSE IF inp.backward THEN -1 ELSE 0

\* let throttle = 0; if (input.forward) throttle = 1; if (input.backward) throttle = -1
Throttle(inp) == IF inp.backward THEN -1 ELSE IF inp.forward THEN 1 ELSE 0

SteerInput(inp) == IF inp.right THEN -1 ELSE IF inp.left THEN 1 ELSE 0

\* speedBoost, maxSpeed and accel of updatePhysics for a carConfig.speed
SpeedBoostOf(speed) == 900 + (speed - 1) * 180
MaxSpeedOf(speed) == 28 * SpeedBoostOf(speed)
AccelOf(speed) == 22 * SpeedBoostOf(speed)

\* ThrottleStepOf with the fault of a missing top-speed cap
ThrottleStepUncapped(stat, speed, throttle, dt) ==
    IF throttle > 0 THEN speed + RoundDiv(AccelOf(stat) * dt, Milli)
    ELSE IF throttle < 0 THEN
        IF speed > 500 THEN speed - RoundDiv(brakeForce * dt, Milli)
        ELSE Max(speed - RoundDiv(AccelOf(stat) * dt, 2 * Milli),
                 -RoundDiv(MaxSpeedOf(stat) * 35, 100))
    ELSE LET s == speed - Sign(speed) * RoundDiv(rollFriction * dt, Milli)
         IN  IF Abs(s) < 100 THEN 0 ELSE s

\* Throttle & brake of a car with carConfig.speed = stat: the new forward speed
ThrottleStepOf(stat, speed, throttle, dt) ==
    IF throttle > 0
    THEN Min(speed + RoundDiv(AccelOf(stat) * dt, Milli), MaxSpeedOf(stat))
    ELSE IF throttle < 0 THEN
        IF speed > 500 THEN speed - RoundDiv(brakeForce * dt, Milli)
        ELSE Max(speed - RoundDiv(AccelOf(stat) * dt, 2 * Milli),
                 -RoundDiv(MaxSpeedOf(stat) * 35, 100))
    ELSE LET s == speed - Sign(speed) * RoundDiv(rollFriction * dt, Milli)
         IN  IF Abs(s) < 100 THEN 0 ELSE s

\* Throttle & brake of the car of this race
ThrottleStep(speed, throttle, dt) == ThrottleStepOf(CarSpeed, speed, throttle, dt)

\* steerCurve: yaw rate in 1/1000 rad per second
SteerCurve(ratio) ==
    IF ratio > 50
    THEN RoundDiv(RoundDiv(steerMax * Min(ratio * 3, Milli), Milli)
                    * (4 * Milli - ratio), 4 * Milli)
    ELSE 0

\* SteerStep with the fault of steering the same way in reverse
SteerStepSameWay(heading, speed, ratio, steer, dt) ==
    heading + RoundDiv(steer * SteerCurve(ratio) * dt, Milli)

\* Steering: the new heading (speed is the speed after ThrottleStep)
SteerStep(heading, speed, ratio, steer, dt) ==
    LET steerDir == IF speed >= 0 THEN 1 ELSE -1
    IN  heading + RoundDiv(steer * SteerCurve(ratio) * steerDir * dt, Milli)

\* DriftStep with the fault of a missing clamp
DriftStepUnclamped(lateralVel, speed, ratio, steer, backward, dt) ==
    LET isBraking == backward /\ speed > 3000
        brake10   == IF isBraking THEN 35 ELSE 10      \* brakeDriftMultiplier x 10
        grip      == IF isBraking THEN RoundDiv(lateralGrip * 3, 10) ELSE lateralGrip
        a1 == IF steer # 0 /\ ratio > 200
              THEN lateralVel
                   - steer * RoundDiv(RoundDiv(driftAccum * brake10 * ratio, 10 * Milli) * dt, Milli)
              ELSE lateralVel
        a2 == IF isBraking /\ steer # 0 /\ ratio > 300
              THEN a1 - steer * RoundDiv(4 * ratio * dt, Milli)
              ELSE a1
        k  == RoundDiv(grip * dt, Milli)               \* lerp weight in 1/1000
        a3 == RoundDiv((Milli - k) * a2, Milli)        \* MathUtils.lerp(a2, 0, k)
    IN  a3

\* Drift model: the new lateral velocity
DriftStep(lateralVel, speed, ratio, steer, backward, dt) ==
    LET isBraking == backward /\ speed > 3000
        brake10   == IF isBraking THEN 35 ELSE 10      \* brakeDriftMultiplier x 10
        grip      == IF isBraking THEN RoundDiv(lateralGrip * 3, 10) ELSE lateralGrip
        a1 == IF steer # 0 /\ ratio > 200
              THEN lateralVel
                   - steer * RoundDiv(RoundDiv(driftAccum * brake10 * ratio, 10 * Milli) * dt, Milli)
              ELSE lateralVel
        a2 == IF isBraking /\ steer # 0 /\ ratio > 300
              THEN a1 - steer * RoundDiv(4 * ratio * dt, Milli)
              ELSE a1
        k  == RoundDiv(grip * dt, Milli)               \* lerp weight in 1/1000
        a3 == RoundDiv((Milli - k) * a2, Milli)        \* MathUtils.lerp(a2, 0, k)
    IN  Max(-maxLateral, Min(maxLateral, a3))          \* MathUtils.clamp

\* Velocity vector = forward + lateral, in 1/1000 unit per second
Velocity(heading, speed, lateralVel) ==
    << RoundDiv(Sin(heading) * speed + Cos(heading) * lateralVel, Milli),
       RoundDiv(Cos(heading) * speed - Sin(heading) * lateralVel, Milli) >>

\* PushBack with the fault of damping the car at the boundary without moving
\* it back onto the road
PushBackKeepsPosition(p, vel, cp, dist) ==
    IF Dist2(<< p.x, p.z >>, cp) > halfWidth * halfWidth
    THEN LET inbound == vel[1] * (p.x - cp[1]) + vel[2] * (p.z - cp[2]) > 0
         IN  [ p EXCEPT
                 !.speed = IF inbound THEN RoundDiv(p.speed * 45, 100) ELSE p.speed,
                 !.lateralVel = IF inbound THEN RoundDiv(p.lateralVel * 40, 100)
                                ELSE p.lateralVel ]
    ELSE p

\* Track boundary collision: the pose p has just been moved with velocity vel;
\* cp is the curve point at findClosestT(pos), dist its distance to the car
PushBack(p, vel, cp, dist) ==
    IF Dist2(<< p.x, p.z >>, cp) > halfWidth * halfWidth
    THEN LET overlap == dist - halfWidth
             dx == p.x - cp[1]
             dz == p.z - cp[2]
             \* vel . wallNormal < 0, wallNormal = -pushDir
             inbound == vel[1] * dx + vel[2] * dz > 0
         IN  [ p EXCEPT
                 !.x = p.x - RoundDiv(dx * (overlap + 100), dist),
                 !.z = p.z - RoundDiv(dz * (overlap + 100), dist),
                 !.speed = IF inbound THEN RoundDiv(p.speed * 45, 100) ELSE p.speed,
                 !.lateralVel = IF inbound THEN RoundDiv(p.lateralVel * 40, 100)
                                ELSE p.lateralVel ]
    ELSE p

Collide(p, vel, cp) == PushBack(p, vel, cp, Dist(<< p.x, p.z >>, cp))

\* position += velocity * dt, then the boundary collision
Integrate(p, dt, vel) ==
    Collide([ p EXCEPT !.x = p.x + RoundDiv(vel[1] * dt, Milli),
                       !.z = p.z + RoundDiv(vel[2] * dt, Milli) ],
            vel,
            SampleTable[FindClosestT(<< p.x + RoundDiv(vel[1] * dt, Milli),
                                        p.z + RoundDiv(vel[2] * dt, Milli) >>)])

\* steering and drift at the new speed, then the move
SteerAndDrift(p, inp, dt, ratio, speed) ==
    Integrate([ p EXCEPT
                  !.speed = speed,
                  !.heading = SteerStep(p.heading, speed, ratio, SteerInput(inp), dt),
                  !.lateralVel = DriftStep(p.lateralVel, speed, ratio, SteerInput(inp),
                                           inp.backward, dt) ],
              dt,
              Velocity(SteerStep(p.heading, speed, ratio, SteerInput(inp), dt),
                       speed,
                       DriftStep(p.lateralVel, speed, ratio, SteerInput(inp),
                                 inp.backward, dt)))

\* updatePhysics(dt), dt in ms: speedRatio is taken before the throttle acts
UpdatePhysics(p, inp, dt) ==
    SteerAndDrift(p, inp, dt, SpeedRatio(p.speed),
                  ThrottleStep(p.speed, Throttle(inp), dt))

\* the position after position += velocity * dt, before the boundary collision
Glide(p, dt, vel) ==
    << p.x + RoundDiv(vel[1] * dt, Milli), p.z + RoundDiv(vel[2] * dt, Milli) >>

GlideFrom(p, inp, dt, ratio, speed) ==
    Glide(p, dt,
          Velocity(SteerStep(p.heading, speed, ratio, SteerInput(inp), dt),
                   speed,
                   DriftStep(p.lateralVel, speed, ratio, SteerInput(inp),
                             inp.backward, dt)))

\* where updatePhysics(dt) takes the car if no boundary is in the way
Unbounded(p, inp, dt) ==
    GlideFrom(p, inp, dt, SpeedRatio(p.speed), ThrottleStep(p.speed, Throttle(inp), dt))

\* placeCarAtStart: the pose at trackPoints[0]
StartPose ==
    [ x |-> GetPoint(0, NumWp * Density)[1],
      z |-> GetPoint(0, NumWp * Density)[2],
      heading |-> Atan2(TangentAtWaypoint(0)[1], TangentAtWaypoint(0)[2]),
      speed |-> 0, lateralVel |-> 0 ]

\* initPhysics
InitPose == [ x |-> 0, z |-> 0, heading |-> 0, speed |-> 0, lateralVel |-> 0 ]

-----------------------------------------------------------------------------
(* Events handed to the EngineCallback handlers *)

EvCountdown(step) == [kind |-> "countdown", step |-> step]
EvStateChange(st) == [kind |-> "stateChange", state |-> st]
EvTimer(ms)       == [kind |-> "timer", ms |-> ms]
EvCheckpoint(index, ms, delta, isBest) ==
    [kind |-> "checkpoint", index |-> index, elapsedMs |-> ms,
     deltaMs |-> delta, isBest |-> isBest]
EvLap(lap, ms)    == [kind |-> "lap", lap |-> lap, lapTimeMs |-> ms]
EvFinish(ms)      == [kind |-> "finish", totalMs |-> ms]

Infinity == 1073741823  \* bestTotalTime = Infinity

\* GameCanvas as it is mounted, or in step with the engine, no overlay open;
\* FinishScreen has sent the time of a race that is finished
HudIdle ==
    /\ hudRaceState = raceState
    /\ hudBestTime = IF bestTotalTime = Infinity THEN Null ELSE Some(bestTotalTime)
    /\ finishTime = IF raceState = "finished" THEN elapsedMs ELSE 0
    /\ showLeaderboard = FALSE
    /\ posted = IF raceState = "finished" THEN << elapsedMs >> ELSE << >>
FrameMs == 50           \* the clamp on a frame's delta: Math.min(.., 0.05)

Keys == {"forward", "backward", "left", "right"}
NoInput == [forward |-> FALSE, backward |-> FALSE, left |-> FALSE, right |-> FALSE]

\* resetCheckpoints
ResetCheckpoints == [i \in 1 .. NumCp |-> FALSE]

-----------------------------------------------------------------------------
(* Construction *)

\* computeCenter for the waypoints wp
CenterOf(wp) ==
    LET SumOf(k) == LET RECURSIVE S(_)
                        S(i) == IF i = 0 THEN 0 ELSE wp[i][k] + S(i - 1)
                    IN  S(Len(wp))
    IN  << RoundDiv(SumOf(1), Len(wp)), RoundDiv(SumOf(2), Len(wp)) >>

\* spline.getPoint(tn / td) of the closed curve through the centred wp
CurveAt(wp, c, tn, td) ==
    LET P(i) == << wp[(i % Len(wp)) + 1][1] - c[1], wp[(i % Len(wp)) + 1][2] - c[2] >>
        p  == Len(wp) * tn
        ip == p \div td
        wn == p % td
        ii == IF ip > 0 THEN ip ELSE ip + Len(wp)
    IN  << CatmullRom(P(ii - 1)[1], P(ii)[1], P(ii + 1)[1], P(ii + 2)[1], wn, td),
           CatmullRom(P(ii - 1)[2], P(ii)[2], P(ii + 1)[2], P(ii + 2)[2], wn, td) >>

\* buildTrack with the fault of a loop that stops before i = divisions
BuildTrackOpen(wp) ==
    [ j \in 1 .. Len(wp) * Density |->
        [ t |-> j - 1,
          center |-> CurveAt(wp, CenterOf(wp), j - 1, Len(wp) * Density) ] ]

\* buildTrack: this.trackPoints, one entry pushed for each i = 0..divisions,
\* at t = i / divisions (kept as the numerator i)
BuildTrack(wp) ==
    [ j \in 1 .. Len(wp) * Density + 1 |->
        [ t |-> j - 1,
          center |-> CurveAt(wp, CenterOf(wp), j - 1, Len(wp) * Density) ] ]

\* new GameEngine(canvas, mapConfig, carConfig, callbacks) with waypoints wp
\* (at least one) and carConfig.speed: the fields are stored, the track is
\* built with wp.length * 24 divisions, the loop is started; nothing is
\* checked and nothing is thrown
Constructor(wp, speed) ==
    [ waypoints |-> wp, speed |-> speed, divisions |-> Len(wp) * Density,
      maxSpeed |-> MaxSpeedOf(speed), error |-> Null, loop |-> TRUE ]

\* constructor: initPhysics, buildTrack, placeCarAtStart, bindKeys,
\* startCountdown, startLoop
EngineFields ==
    /\ raceState = "countdown"
    /\ countdownStep = 3
    /\ countdownTimer = 0
    /\ timerActive = FALSE
    /\ startTimeMs = 0
    /\ elapsedMs = 0
    /\ lastUpdateTime = 0
    /\ currentLap = 0
    /\ lastCarT = 0
    /\ lapStartMs = 0
    /\ passed = ResetCheckpoints
    /\ bestSplits = [i \in 1 .. NumCp |-> Null]
    /\ bestTotalTime = Infinity
    /\ lapCheckpointIndex = 0
    /\ input = NoInput
    /\ physics = StartPose
    /\ events = << EvCountdown(3), EvStateChange("countdown"), EvTimer(0) >>
    /\ calls = << "placeCarAtStart", "startCountdown" >>
    /\ runFinishes = 0
    /\ lapCpLog = << >>
    /\ cdLog = << 3 >>
    /\ sinceStep = 0
    /\ sinceStart = 0
    /\ raceFrames = 0
    /\ oddFrames = 0
    /\ simMs = 0
    /\ bumped = FALSE
    /\ lastProgress = 0
    /\ progressAtCheckpoint = FALSE
    /\ lapsSinceMid = 0
    /\ HudIdle

\* the constructed engine, with no leaderboard beside it
EngineInit == EngineFields /\ BoardIdle

\* the engine of the configured track and car, constructed
Init ==
    /\ EngineInit
    /\ frameRequested = Constructor(Waypoints, CarSpeed).loop
    /\ listening = TRUE
    /\ destroyedIn = "no"
    /\ answers = Null
    /\ built = Constructor(Waypoints, CarSpeed)

-----------------------------------------------------------------------------
(* Input: bindKeys.  z / ArrowUp -> forward, s / ArrowDown -> backward,     *)
(* q / ArrowLeft -> left, d / ArrowRight -> right                          *)

KeyDown(k) ==
    /\ listening
    /\ input' = [input EXCEPT ![k] = TRUE]
    /\ answers' = Null
    /\ UNCHANGED << lapVars, boardVars, hudVars >>
    /\ UNCHANGED << engineVars, traceVars, frameRequested, listening, destroyedIn, built >>

KeyUp(k) ==
    /\ listening
    /\ input' = [input EXCEPT ![k] = FALSE]
    /\ answers' = Null
    /\ UNCHANGED << lapVars, boardVars, hudVars >>
    /\ UNCHANGED << engineVars, traceVars, frameRequested, listening, destroyedIn, built >>

-----------------------------------------------------------------------------
(* tickCountdown(dt): the engine fields and callbacks after the call.      *)
(* perf is performance.now() as read inside the frame.                     *)

\* tickCountdown with the fault of clearing the timer at a step instead of
\* keeping the excess over a second
TickCountdownNoCarry(dt, perf) ==
    LET timer == countdownTimer + dt
        step  == countdownStep - 1
    IN  IF timer >= 1000
        THEN IF step <= 0
             THEN [ countdownTimer |-> 0, countdownStep |-> 0,
                    raceState |-> "racing", timerActive |-> TRUE,
                    startTimeMs |-> perf, lapStartMs |-> perf,
                    events |-> << EvCountdown(0), EvStateChange("racing") >> ]
             ELSE [ countdownTimer |-> 0, countdownStep |-> step,
                    raceState |-> raceState, timerActive |-> timerActive,
                    startTimeMs |-> startTimeMs, lapStartMs |-> lapStartMs,
                    events |-> << EvCountdown(step) >> ]
        ELSE [ countdownTimer |-> timer, countdownStep |-> countdownStep,
               raceState |-> raceState, timerActive |-> timerActive,
               startTimeMs |-> startTimeMs, lapStartMs |-> lapStartMs,
               events |-> << >> ]

\* TickCountdown with the fault of going at step 1
TickCountdownEarlyGo(dt, perf) ==
    LET timer == countdownTimer + dt
        step  == countdownStep - 1
    IN  IF timer >= 1000
        THEN IF step <= 1
             THEN [ countdownTimer |-> timer - 1000, countdownStep |-> 0,
                    raceState |-> "racing", timerActive |-> TRUE,
                    startTimeMs |-> perf, lapStartMs |-> perf,
                    events |-> << EvCountdown(0), EvStateChange("racing") >> ]
             ELSE [ countdownTimer |-> timer - 1000, countdownStep |-> step,
                    raceState |-> raceState, timerActive |-> timerActive,
                    startTimeMs |-> startTimeMs, lapStartMs |-> lapStartMs,
                    events |-> << EvCountdown(step) >> ]
        ELSE [ countdownTimer |-> timer, countdownStep |-> countdownStep,
               raceState |-> raceState, timerActive |-> timerActive,
               startTimeMs |-> startTimeMs, lapStartMs |-> lapStartMs,
               events |-> << >> ]

TickCountdown(dt, perf) ==
    LET timer == countdownTimer + dt
        step  == countdownStep - 1
    IN  IF timer >= 1000
        THEN IF step <= 0
             THEN [ countdownTimer |-> timer - 1000, countdownStep |-> 0,
                    raceState |-> "racing", timerActive |-> TRUE,
                    startTimeMs |-> perf, lapStartMs |-> perf,
                    events |-> << EvCountdown(0), EvStateChange("racing") >> ]
             ELSE [ countdownTimer |-> timer - 1000, countdownStep |-> step,
                    raceState |-> raceState, timerActive |-> timerActive,
                    startTimeMs |-> startTimeMs, lapStartMs |-> lapStartMs,
                    events |-> << EvCountdown(step) >> ]
        ELSE [ countdownTimer |-> timer, countdownStep |-> countdownStep,
               raceState |-> raceState, timerActive |-> timerActive,
               startTimeMs |-> startTimeMs, lapStartMs |-> lapStartMs,
               events |-> << >> ]

-----------------------------------------------------------------------------
(* checkProgress and what it calls, as functions of a record r of the      *)
(* engine fields they read and write; r.events collects the callbacks      *)

\* the engine fields at the start of checkProgress, the car at pose p
Fields(p) ==
    [ physics |-> p, passed |-> passed, lapCheckpointIndex |-> lapCheckpointIndex,
      bestSplits |-> bestSplits, currentLap |-> currentLap, lapStartMs |-> lapStartMs,
      lastCarT |-> lastCarT, raceState |-> raceState, timerActive |-> timerActive,
      bestTotalTime |-> bestTotalTime, events |-> << >> ]

\* deltaMs = best != null ? splitMs - best : null
DeltaMs(best, splitMs) == IF best # Null THEN Some(splitMs - Val(best)) ELSE Null

\* isBest = deltaMs === null || deltaMs < 0
IsBest(delta) == delta = Null \/ Val(delta) < 0

\* NewBest with the fault of storing every split as the best
NewBestAlways(best, splitMs) == Some(splitMs)

\* the best split stored for the index after the call
NewBest(best, splitMs) ==
    LET delta == DeltaMs(best, splitMs)
    IN  IF IsBest(delta) /\ delta # Null THEN Some(splitMs)
        ELSE IF delta = Null THEN Some(splitMs)
        ELSE best

\* triggerCheckpoint(index), index 0-based; splitMs = this.elapsedMs
\* TriggerCheckpoint with the fault of not advancing lapCheckpointIndex
TriggerCheckpointKeepsIndex(r, index, splitMs) ==
    IF r.passed[index + 1] THEN r
    ELSE [ r EXCEPT
             !.passed[index + 1] = TRUE,
             !.bestSplits[index + 1] = NewBest(@, splitMs),
             !.events = Append(@, EvCheckpoint(index, splitMs,
                                   DeltaMs(r.bestSplits[index + 1], splitMs),
                                   IsBest(DeltaMs(r.bestSplits[index + 1], splitMs)))) ]

TriggerCheckpoint(r, index, splitMs) ==
    IF r.passed[index + 1] THEN r
    ELSE [ r EXCEPT
             !.passed[index + 1] = TRUE,
             !.lapCheckpointIndex = @ + 1,
             !.bestSplits[index + 1] = NewBest(@, splitMs),
             !.events = Append(@, EvCheckpoint(index, splitMs,
                                   DeltaMs(r.bestSplits[index + 1], splitMs),
                                   IsBest(DeltaMs(r.bestSplits[index + 1], splitMs)))) ]

\* the checkpoint gate is in reach: dist < trackWidth * 0.9
InReach(pos, cpT) ==
    Dist2(pos, GetPoint(cpT, Samples))
        <= ((9 * TrackWidth) * (9 * TrackWidth) - 1) \div 100

\* CheckCheckpoint with the fault of going on to the gate after the one
\* just triggered in the same call
CheckCheckpointOnwards(r, pos, splitMs) ==
    LET One(q) == IF /\ q.lapCheckpointIndex < NumCp
                     /\ ~q.passed[q.lapCheckpointIndex + 1]
                     /\ InReach(pos, Checkpoints[q.lapCheckpointIndex + 1])
                  THEN TriggerCheckpoint(q, q.lapCheckpointIndex, splitMs)
                  ELSE q
    IN  One(One(r))

\* checkProgress, the checkpoint part
CheckCheckpoint(r, pos, splitMs) ==
    IF /\ r.lapCheckpointIndex < NumCp
       /\ ~r.passed[r.lapCheckpointIndex + 1]
       /\ InReach(pos, Checkpoints[r.lapCheckpointIndex + 1])
    THEN TriggerCheckpoint(r, r.lapCheckpointIndex, splitMs)
    ELSE r

\* CrossedFinish with the fault of dropping the test of the stored progress
CrossedFinishNoHigh(lastT, currentT) == currentT * 100 < 12 * Samples

\* crossedFinish = lastCarT > 0.88 && currentT < 0.12
CrossedFinish(lastT, currentT) ==
    lastT * 100 > 88 * Samples /\ currentT * 100 < 12 * Samples

\* LapCrossing with the fault of keeping the next-expected checkpoint index
LapCrossingKeepsIndex(r, perf) ==
    [ r EXCEPT
        !.currentLap = @ + 1,
        !.lapStartMs = perf,
        !.passed = ResetCheckpoints,
        !.events = Append(@, EvLap(r.currentLap + 1, perf - r.lapStartMs)) ]

\* LapCrossing with the fault of keeping the passed flags
LapCrossingKeepsFlags(r, perf) ==
    [ r EXCEPT
        !.currentLap = @ + 1,
        !.lapStartMs = perf,
        !.lapCheckpointIndex = 0,
        !.events = Append(@, EvLap(r.currentLap + 1, perf - r.lapStartMs)) ]

\* the body of if (crossedFinish) up to the onLapComplete callback
LapCrossing(r, perf) ==
    [ r EXCEPT
        !.currentLap = @ + 1,
        !.lapStartMs = perf,
        !.lapCheckpointIndex = 0,
        !.passed = ResetCheckpoints,
        !.events = Append(@, EvLap(r.currentLap + 1, perf - r.lapStartMs)) ]

\* FinishRace with the fault of leaving raceState at racing
FinishRaceKeepsRacing(r, ms) ==
    [ r EXCEPT
        !.timerActive = FALSE,
        !.physics = [ @ EXCEPT !.speed = 0, !.lateralVel = 0 ],
        !.bestTotalTime = IF ms < @ THEN ms ELSE @,
        !.events = @ \o << EvFinish(ms), EvStateChange("finished") >> ]

\* finishRace with the fault of calling onStateChange before onFinish
FinishRaceStateFirst(r, ms) ==
    [ r EXCEPT
        !.raceState = "finished",
        !.timerActive = FALSE,
        !.physics = [ @ EXCEPT !.speed = 0, !.lateralVel = 0 ],
        !.bestTotalTime = IF ms < @ THEN ms ELSE @,
        !.events = @ \o << EvStateChange("finished"), EvFinish(ms) >> ]

\* finishRace(); this.elapsedMs = ms
\* finishRace with the fault of storing every finish time as the best
FinishRaceStoresLast(r, ms) ==
    [ r EXCEPT
        !.raceState = "finished",
        !.timerActive = FALSE,
        !.physics = [ @ EXCEPT !.speed = 0, !.lateralVel = 0 ],
        !.bestTotalTime = ms,
        !.events = @ \o << EvFinish(ms), EvStateChange("finished") >> ]

FinishRace(r, ms) ==
    [ r EXCEPT
        !.raceState = "finished",
        !.timerActive = FALSE,
        !.physics = [ @ EXCEPT !.speed = 0, !.lateralVel = 0 ],
        !.bestTotalTime = IF ms < @ THEN ms ELSE @,
        !.events = @ \o << EvFinish(ms), EvStateChange("finished") >> ]

\* CheckLap with the fault of finishing at the first lap crossing
CheckLapFinishesEarly(r, currentT, ms, perf) ==
    IF CrossedFinish(r.lastCarT, currentT)
    THEN FinishRace(LapCrossing(r, perf), ms)
    ELSE [ r EXCEPT !.lastCarT = currentT ]

\* CheckLap with the fault of finishing one lap late
CheckLapOneMore(r, currentT, ms, perf) ==
    IF CrossedFinish(r.lastCarT, currentT)
    THEN IF r.currentLap + 1 > TotalLaps
         THEN FinishRace(LapCrossing(r, perf), ms)
         ELSE [ LapCrossing(r, perf) EXCEPT !.lastCarT = currentT ]
    ELSE [ r EXCEPT !.lastCarT = currentT ]

\* checkProgress, the lap detection part; finishRace returns before lastCarT is stored
CheckLap(r, currentT, ms, perf) ==
    IF CrossedFinish(r.lastCarT, currentT)
    THEN IF r.currentLap + 1 >= TotalLaps
         THEN FinishRace(LapCrossing(r, perf), ms)
         ELSE [ LapCrossing(r, perf) EXCEPT !.lastCarT = currentT ]
    ELSE [ r EXCEPT !.lastCarT = currentT ]

\* checkProgress() with the car at pose p and this.elapsedMs = ms
CheckProgress(p, ms, perf) ==
    CheckLap(CheckCheckpoint(Fields(p), << p.x, p.z >>, ms),
             FindClosestT(<< p.x, p.z >>), ms, perf)

\* updateTimer(now): this.elapsedMs after the call
UpdateTimer(now) == IF timerActive THEN now - startTimeMs ELSE elapsedMs

-----------------------------------------------------------------------------
(* One animation frame: the loop callback of startLoop and update(dt, now) *)

\* ClampDt with the fault of passing the frame gap on as it is
ClampDtNone(gap) == gap

\* dt = Math.min((now - lastUpdateTime) / 1000, 0.05), in ms
ClampDt(gap) == Min(gap, FrameMs)

\* the callbacks of one kind among evs, in order
Kinds(evs, kind) == SelectSeq(evs, LAMBDA e : e.kind = kind)

\* the indices of the checkpoint callbacks among evs, in order
CheckpointIndices(evs) ==
    [ j \in 1 .. Len(Kinds(evs, "checkpoint")) |-> Kinds(evs, "checkpoint")[j].index ]

\* the steps of the countdown callbacks among evs, in order
CountdownSteps(evs) ==
    [ j \in 1 .. Len(Kinds(evs, "countdown")) |-> Kinds(evs, "countdown")[j].step ]

\* the loop callback: the frame arrives gap ms after the previous one
Loop(gap, maxClock) ==
    /\ frameRequested
    /\ lastUpdateTime + gap <= maxClock
    /\ gap # FrameMs => oddFrames < MaxOddFrames
    /\ oddFrames' = IF gap # FrameMs THEN oddFrames + 1 ELSE oddFrames
    /\ lastUpdateTime' = lastUpdateTime + gap
    /\ answers' = Null
    /\ UNCHANGED << input, built >>

\* the loop callback with the fault of requesting the next frame after
\* update() has returned
LoopRequestAfterUpdate(destroyed) == TRUE

\* the loop callback requests the next frame, then runs update(): whether the
\* request is still pending when the callback returns, destroyed telling
\* that a handler called destroy() during update()
LoopRequest(destroyed) == ~destroyed

\* the EngineCallback handlers run by the frame; destroyed: one of them calls
\* destroy()
Callbacks(destroyed) ==
    /\ destroyed => events' # << >>
    /\ frameRequested' = LoopRequest(destroyed)
    /\ listening' = (listening /\ ~destroyed)
    /\ destroyedIn' = IF destroyed /\ destroyedIn = "no" THEN "frame" ELSE destroyedIn

-----------------------------------------------------------------------------
(* GameCanvas: the component state the engine callbacks set, the finish    *)
(* screen and the leaderboard overlay                                      *)

\* OnCallback with the fault of a missing onStateChange handler
OnCallbackNoStateChange(h, ev) ==
    IF ev.kind = "finish"
    THEN [ h EXCEPT
             !.finishTime = ev.totalMs,
             !.bestTime = IF @ = Null THEN Some(ev.totalMs)
                          ELSE IF ev.totalMs < Val(@) THEN Some(ev.totalMs)
                          ELSE @,
             !.raceState = "finished" ]
    ELSE h

\* the useState fields of GameCanvas after the callback ev
OnCallback(h, ev) ==
    IF ev.kind = "stateChange" THEN [ h EXCEPT !.raceState = ev.state ]
    ELSE IF ev.kind = "finish"
    THEN [ h EXCEPT
             !.finishTime = ev.totalMs,
             !.bestTime = IF @ = Null THEN Some(ev.totalMs)
                          ELSE IF ev.totalMs < Val(@) THEN Some(ev.totalMs)
                          ELSE @,
             !.raceState = "finished" ]
    ELSE h

RECURSIVE OnCallbacks(_, _)
\* the same after the callbacks evs, in the order of the calls
OnCallbacks(h, evs) ==
    IF evs = << >> THEN h ELSE OnCallbacks(OnCallback(h, Head(evs)), Tail(evs))

\* raceState === 'finished' && !showLeaderboard: FinishScreen is rendered
FinishScreenShown(state, show) == state = "finished" /\ ~show

\* AutoSubmit with the fault of posting on every render
AutoSubmitEveryRender(before, after, time) ==
    IF after THEN << time >> ELSE << >>

\* the auto-submit effect of FinishScreen, useEffect(..., []): the POSTs of a
\* render, before and after telling whether FinishScreen is rendered
AutoSubmit(before, after, time) ==
    IF after /\ ~before THEN << time >> ELSE << >>

\* the handlers of GameCanvas for the callbacks evs and the render after
\* them; restarted: the setters that follow engine.restart() run too
Canvas(evs, restarted) ==
    \E h \in {OnCallbacks([ raceState |-> hudRaceState, bestTime |-> hudBestTime,
                             finishTime |-> finishTime ], evs)} :
        /\ hudRaceState' = IF restarted THEN "countdown" ELSE h.raceState
        /\ hudBestTime' = h.bestTime
        /\ finishTime' = IF restarted THEN 0 ELSE h.finishTime
        /\ showLeaderboard' = showLeaderboard
        /\ posted' = IF restarted THEN << >>
                      ELSE posted \o AutoSubmit(FinishScreenShown(hudRaceState, showLeaderboard),
                                                FinishScreenShown(h.raceState, showLeaderboard),
                                                h.finishTime)

\* UpdateBranch with the fault of a missing early return for finished
UpdateWithoutFinishedReturn ==
    IF raceState = "countdown" THEN "countdown" ELSE "racing"

\* UpdateBranch with the fault of a missing early return for countdown
UpdateWithoutCountdownReturn ==
    IF raceState = "finished" THEN "finished" ELSE "racing"

\* update(dt, now): the branch the early returns select
UpdateBranch ==
    IF raceState = "countdown" THEN "countdown"
    ELSE IF raceState = "finished" THEN "finished"
    ELSE "racing"

UpdateCountdown(gap, delay, maxClock) ==
    /\ Loop(gap, maxClock)
    /\ UpdateBranch = "countdown"
    /\ UNCHANGED << lapVars, boardVars >>
    /\ \E r \in {TickCountdown(ClampDt(gap), lastUpdateTime + gap + delay)} :
        /\ countdownTimer' = r.countdownTimer
        /\ countdownStep' = r.countdownStep
        /\ raceState' = r.raceState
        /\ timerActive' = r.timerActive
        /\ startTimeMs' = r.startTimeMs
        /\ lapStartMs' = r.lapStartMs
        /\ events' = r.events
        /\ cdLog' = cdLog \o CountdownSteps(r.events)
        /\ sinceStep' = IF CountdownSteps(r.events) # << >> THEN 0
                        ELSE sinceStep + ClampDt(gap)
    /\ sinceStart' = sinceStart + ClampDt(gap)
    /\ calls' = << "tickCountdown" >>
    /\ UNCHANGED << elapsedMs, currentLap, lastCarT, passed, bestSplits,
                    bestTotalTime, lapCheckpointIndex, physics, runFinishes,
                    lapCpLog, raceFrames, simMs, bumped >>
    /\ Canvas(events', FALSE)

UpdateFinished(gap, maxClock) ==
    /\ Loop(gap, maxClock)
    /\ UpdateBranch = "finished"
    /\ UNCHANGED << lapVars, boardVars >>
    /\ raceFrames < MaxRaceFrames
    /\ raceFrames' = raceFrames + 1
    /\ events' = << >>
    /\ calls' = << >>
    /\ UNCHANGED << raceState, countdownStep, countdownTimer, timerActive, startTimeMs,
                    elapsedMs, currentLap, lastCarT, lapStartMs, passed, bestSplits,
                    bestTotalTime, lapCheckpointIndex, physics, runFinishes,
                    lapCpLog, cdLog, sinceStep, sinceStart, simMs, bumped >>
    /\ Canvas(events', FALSE)

UpdateRacing(gap, delay, maxClock) ==
    /\ Loop(gap, maxClock)
    /\ UpdateBranch = "racing"
    /\ UNCHANGED << lapVars, boardVars >>
    /\ raceFrames < MaxRaceFrames
    /\ raceFrames' = raceFrames + 1
    /\ \E ms \in {UpdateTimer(lastUpdateTime + gap)} :
       \E r \in {CheckProgress(UpdatePhysics(physics, input, ClampDt(gap)), ms,
                               lastUpdateTime + gap + delay)} :
        /\ elapsedMs' = ms
        /\ physics' = r.physics
        /\ passed' = r.passed
        /\ lapCheckpointIndex' = r.lapCheckpointIndex
        /\ bestSplits' = r.bestSplits
        /\ currentLap' = r.currentLap
        /\ lapStartMs' = r.lapStartMs
        /\ lastCarT' = r.lastCarT
        /\ raceState' = r.raceState
        /\ timerActive' = r.timerActive
        /\ bestTotalTime' = r.bestTotalTime
        /\ events' = (IF timerActive THEN << EvTimer(ms) >> ELSE << >>) \o r.events
        /\ runFinishes' = runFinishes + Len(Kinds(r.events, "finish"))
        /\ lapCpLog' = IF Kinds(r.events, "lap") # << >> THEN << >>
                       ELSE lapCpLog \o CheckpointIndices(r.events)
        /\ bumped' = (<< r.physics.x, r.physics.z >>
                        # Unbounded(physics, input, ClampDt(gap)))
    /\ simMs' = simMs + ClampDt(gap)
    /\ calls' = << "updatePhysics", "updateTimer", "checkProgress" >>
    /\ UNCHANGED << countdownStep, countdownTimer, startTimeMs, cdLog, sinceStep,
                    sinceStart >>
    /\ Canvas(events', FALSE)

-----------------------------------------------------------------------------
(* restart(): placeCarAtStart and startCountdown *)

\* restart() with the fault of clearing the session's best records
RestartClearsBests ==
    /\ raceState' = "countdown"
    /\ timerActive' = FALSE
    /\ elapsedMs' = 0
    /\ currentLap' = 0
    /\ lapCheckpointIndex' = 0
    /\ input' = [input EXCEPT !.forward = FALSE, !.backward = FALSE]
    /\ physics' = StartPose
    /\ lastCarT' = 0
    /\ countdownStep' = 3
    /\ countdownTimer' = 0
    /\ lapStartMs' = 0
    /\ passed' = ResetCheckpoints
    /\ bestSplits' = [i \in 1 .. NumCp |-> Null]
    /\ bestTotalTime' = Infinity
    /\ events' = << EvCountdown(3), EvStateChange("countdown"), EvTimer(0) >>
    /\ calls' = << "placeCarAtStart", "startCountdown" >>
    /\ runFinishes' = 0
    /\ lapCpLog' = << >>
    /\ cdLog' = << 3 >>
    /\ sinceStep' = 0
    /\ sinceStart' = 0
    /\ raceFrames' = 0
    /\ simMs' = 0
    /\ bumped' = FALSE
    /\ answers' = Null
    /\ UNCHANGED << lapVars, boardVars >>
    /\ UNCHANGED << startTimeMs, lastUpdateTime, oddFrames, frameRequested,
                    listening, destroyedIn, built >>
    /\ Canvas(events', TRUE)

\* restart() with the fault of leaving the sub-second timer of the countdown
\* as it is
RestartKeepsTimer ==
    /\ raceState' = "countdown"
    /\ timerActive' = FALSE
    /\ elapsedMs' = 0
    /\ currentLap' = 0
    /\ lapCheckpointIndex' = 0
    /\ input' = [input EXCEPT !.forward = FALSE, !.backward = FALSE]
    /\ physics' = StartPose
    /\ lastCarT' = 0
    /\ countdownStep' = 3
    /\ lapStartMs' = 0
    /\ passed' = ResetCheckpoints
    /\ events' = << EvCountdown(3), EvStateChange("countdown"), EvTimer(0) >>
    /\ calls' = << "placeCarAtStart", "startCountdown" >>
    /\ runFinishes' = 0
    /\ lapCpLog' = << >>
    /\ cdLog' = << 3 >>
    /\ sinceStep' = 0
    /\ sinceStart' = 0
    /\ raceFrames' = 0
    /\ simMs' = 0
    /\ bumped' = FALSE
    /\ answers' = Null
    /\ UNCHANGED << lapVars, boardVars >>
    /\ UNCHANGED << countdownTimer, startTimeMs, lastUpdateTime, bestSplits, bestTotalTime, oddFrames,
                    frameRequested, listening, destroyedIn, built >>
    /\ Canvas(events', TRUE)

Restart ==
    /\ raceState' = "countdown"
    /\ timerActive' = FALSE
    /\ elapsedMs' = 0
    /\ currentLap' = 0
    /\ lapCheckpointIndex' = 0
    /\ input' = [input EXCEPT !.forward = FALSE, !.backward = FALSE]
    /\ physics' = StartPose
    /\ lastCarT' = 0
    /\ countdownStep' = 3
    /\ countdownTimer' = 0
    /\ lapStartMs' = 0
    /\ passed' = ResetCheckpoints
    /\ events' = << EvCountdown(3), EvStateChange("countdown"), EvTimer(0) >>
    /\ calls' = << "placeCarAtStart", "startCountdown" >>
    /\ runFinishes' = 0
    /\ lapCpLog' = << >>
    /\ cdLog' = << 3 >>
    /\ sinceStep' = 0
    /\ sinceStart' = 0
    /\ raceFrames' = 0
    /\ simMs' = 0
    /\ bumped' = FALSE
    /\ answers' = Null
    /\ UNCHANGED << lapVars, boardVars >>
    /\ UNCHANGED << startTimeMs, lastUpdateTime, bestSplits, bestTotalTime, oddFrames,
                    frameRequested, listening, destroyedIn, built >>
    /\ Canvas(events', TRUE)

-----------------------------------------------------------------------------
(* destroy(): cancelAnimationFrame(animationId), the handlers are removed  *)

Destroy ==
    /\ frameRequested' = FALSE
    /\ listening' = FALSE
    /\ destroyedIn' = IF destroyedIn = "no" THEN "idle" ELSE destroyedIn
    /\ answers' = Null
    /\ UNCHANGED << lapVars, boardVars, hudVars >>
    /\ UNCHANGED << engineVars, input, traceVars, built >>

-----------------------------------------------------------------------------
(* The getters of the engine *)

GetElapsedMs == elapsedMs

\* getBestTime with the fault of returning the stored field as it is
GetBestTimeRaw == Some(bestTotalTime)

GetBestTime == IF bestTotalTime = Infinity THEN Null ELSE Some(bestTotalTime)

GetRaceState == raceState

GetCurrentLap == currentLap

\* the host reads the four getters
Query ==
    /\ answers' = Some([ elapsedMs |-> GetElapsedMs, bestTime |-> GetBestTime,
                         raceState |-> GetRaceState, currentLap |-> GetCurrentLap ])
    /\ UNCHANGED << engineVars, input, traceVars, frameRequested, listening,
                    destroyedIn, built, lapVars, boardVars, hudVars >>

-----------------------------------------------------------------------------
(* The engine driven by the host page: frames at the display cadence, key  *)
(* events and restart() between frames                                     *)

Next ==
    \/ \E gap \in {FrameMs} : UpdateCountdown(gap, 0, MaxClockFrames * FrameMs)
                           /\ Callbacks(FALSE)
    \/ \E gap \in {FrameMs} : UpdateRacing(gap, 0, MaxClockFrames * FrameMs)
                           /\ Callbacks(FALSE)
    \/ \E gap \in {FrameMs} : UpdateFinished(gap, MaxClockFrames * FrameMs)
                           /\ Callbacks(FALSE)
    \/ \E k \in Keys : KeyDown(k)
    \/ \E k \in Keys : KeyUp(k)
    \/ Restart

Spec == Init /\ [][Next]_vars

(* The countdown phase with frames that arrive early: a gap of half a      *)
(* frame, at most MaxOddFrames times, up to the go frame; only the         *)
(* throttle keys are used                                                  *)

DriveKeys == {"forward", "backward"}
JitterGaps == {FrameMs \div 2, FrameMs}

NextJitter ==
    \/ \E gap \in JitterGaps : UpdateCountdown(gap, 0, MaxJitterFrames * FrameMs)
                           /\ Callbacks(FALSE)
    \/ \E k \in DriveKeys : KeyDown(k)
    \/ \E k \in DriveKeys : KeyUp(k)
    \/ Restart

SpecJitter == Init /\ [][NextJitter]_vars

(* A session of several runs: restart() is pressed after the go, the clock *)
(* runs long enough for two runs; only the throttle keys are used          *)

RestartAfterGo == raceState # "countdown" /\ Restart

NextSession ==
    \/ \E gap \in {FrameMs} : UpdateCountdown(gap, 0, MaxSessionFrames * FrameMs)
                           /\ Callbacks(FALSE)
    \/ \E gap \in {FrameMs} : UpdateRacing(gap, 0, MaxSessionFrames * FrameMs)
                           /\ Callbacks(FALSE)
    \/ \E gap \in {FrameMs} : UpdateFinished(gap, MaxSessionFrames * FrameMs)
                           /\ Callbacks(FALSE)
    \/ \E k \in DriveKeys : KeyDown(k)
    \/ \E k \in DriveKeys : KeyUp(k)
    \/ RestartAfterGo

SpecSession == Init /\ [][NextSession]_vars

(* The constructor called with other configurations: 2 to MaxWaypoints     *)
(* waypoints on a small grid, among them coincident and collinear ones,    *)
(* and car speeds down to the one that makes maxSpeed zero.  Only the      *)
(* outcome of the call is followed; the fields stay those of the           *)
(* configured track                                                        *)

GridPoints == { << 0, 0 >>, << 3000, 0 >>, << 6000, 0 >>, << 0, 3000 >> }
TrackInputs == UNION { [1 .. n -> GridPoints] : n \in 2 .. MaxWaypoints }
SpeedInputs == { 0 - 4, 1, 3, 5 }

InitConstruct ==
    /\ EngineInit
    /\ frameRequested = FALSE
    /\ listening = FALSE
    /\ destroyedIn = "no"
    /\ answers = Null
    /\ \E wp \in TrackInputs, speed \in SpeedInputs :
          built = [ waypoints |-> wp, speed |-> speed ]

\* new GameEngine(canvas, mapConfig, carConfig, callbacks), with the track
\* table it builds
Construct ==
    /\ "loop" \notin DOMAIN built
    /\ built' = Constructor(built.waypoints, built.speed)
                   @@ [ trackPoints |-> BuildTrack(built.waypoints) ]
    /\ frameRequested' = Constructor(built.waypoints, built.speed).loop
    /\ listening' = (Constructor(built.waypoints, built.speed).error = Null)
    /\ UNCHANGED << engineVars, input, traceVars, destroyedIn, answers, lapVars,
                    boardVars, hudVars >>

NextConstruct == Construct

SpecConstruct == InitConstruct /\ [][NextConstruct]_vars

(* One run with frames that arrive late: a gap of four frames, at most     *)
(* MaxOddFrames times, in the countdown or in the race; only the throttle  *)
(* keys are used                                                           *)

PauseGaps == {FrameMs, 4 * FrameMs}

NextPause ==
    \/ \E gap \in PauseGaps : UpdateCountdown(gap, 0, MaxPauseFrames * FrameMs)
                             /\ Callbacks(FALSE)
    \/ \E gap \in PauseGaps : UpdateRacing(gap, 0, MaxPauseFrames * FrameMs)
                             /\ Callbacks(FALSE)
    \/ \E gap \in PauseGaps : UpdateFinished(gap, MaxPauseFrames * FrameMs)
                             /\ Callbacks(FALSE)
    \/ \E k \in DriveKeys : KeyDown(k)
    \/ \E k \in DriveKeys : KeyUp(k)

SpecPause == Init /\ [][NextPause]_vars

(* The life of the engine in the page: frames up to the first racing       *)
(* frames, the throttle keys, the getters read at any time, destroy()      *)
(* called between frames or by a handler of a callback during a frame      *)

NextHost ==
    \/ \E gap \in {FrameMs}, destroyed \in BOOLEAN :
           UpdateCountdown(gap, 0, MaxHostFrames * FrameMs) /\ Callbacks(destroyed)
    \/ \E gap \in {FrameMs}, destroyed \in BOOLEAN :
           UpdateRacing(gap, 0, MaxHostFrames * FrameMs) /\ Callbacks(destroyed)
    \/ \E k \in DriveKeys : KeyDown(k)
    \/ \E k \in DriveKeys : KeyUp(k)
    \/ Query
    \/ Destroy

SpecHost == Init /\ [][NextHost]_vars

(* The engine met in the middle of a run: the car anywhere across the road *)
(* in its second lap, at rest or at full speed, the keys held in any       *)
(* combination, the go one second ago; frames arrive on time or early.     *)
(* The checkpoint gates are passed as far as they are in reach of the car. *)
(* Or met one frame before the go, or just after the finish                *)

MidSamples == {5, 90, 235}              \* samples of the centerline
MidScales == {700, 1000, 1300}          \* distance from the track centre, 1/1000
MidHeadings == {0, 785, 0 - 1571, 3142}
MidMotions == { << 0 - maxReverse, 0 >>, << 0, 0 >>, << maxSpeed, 0 >>,
                << maxSpeed, maxLateral >> }   \* speed, lateralVel
MidInputs == [forward : BOOLEAN, backward : BOOLEAN, left : BOOLEAN, right : BOOLEAN]

MidPos(i, f) ==
    << RoundDiv(SampleTable[i][1] * f, Milli), RoundDiv(SampleTable[i][2] * f, Milli) >>

\* the gates passed in this lap by a car at pos
MidPassed(pos) ==
    IF ~InReach(pos, Checkpoints[1]) THEN 0
    ELSE IF ~InReach(pos, Checkpoints[2]) THEN 1 ELSE 2

\* fin: the car has just completed the last lap and the race is finished
MidRaceOf(pos, heading, motion, inp, n, fin, stat, frames) ==
    /\ raceState = IF fin THEN "finished" ELSE "racing"
    /\ countdownStep = 0
    /\ countdownTimer = 0
    /\ timerActive = ~fin
    /\ startTimeMs = 60 * FrameMs
    /\ elapsedMs = 20 * FrameMs
    /\ lastUpdateTime = 80 * FrameMs
    /\ currentLap = IF fin THEN TotalLaps ELSE TotalLaps - 1
    /\ lastCarT = FindClosestT(pos)
    /\ lapStartMs = 70 * FrameMs
    /\ passed = [i \in 1 .. NumCp |-> i <= n]
    /\ bestSplits = [i \in 1 .. NumCp |-> IF i = 1 \/ i <= n THEN Some(i * FrameMs)
                                          ELSE Null]
    /\ bestTotalTime = IF fin THEN 20 * FrameMs ELSE Infinity
    /\ lapCheckpointIndex = n
    /\ input = inp
    /\ physics = [ x |-> pos[1], z |-> pos[2], heading |-> heading,
                   speed |-> motion[1], lateralVel |-> motion[2] ]
    /\ events = IF fin THEN << >> ELSE << EvTimer(20 * FrameMs) >>
    /\ calls = IF fin THEN << >>
               ELSE << "updatePhysics", "updateTimer", "checkProgress" >>
    /\ runFinishes = IF fin THEN 1 ELSE 0
    /\ lapCpLog = [j \in 1 .. n |-> j - 1]
    /\ cdLog = << 3, 2, 1, 0 >>
    /\ sinceStep = 0
    /\ sinceStart = 60 * FrameMs
    /\ raceFrames = frames
    /\ oddFrames = 0
    /\ simMs = 20 * FrameMs
    /\ bumped = FALSE
    /\ frameRequested = TRUE
    /\ listening = TRUE
    /\ destroyedIn = "no"
    /\ answers = Null
    /\ built = Constructor(Waypoints, stat)
    /\ lastProgress = 0
    /\ progressAtCheckpoint = FALSE
    /\ lapsSinceMid = 0
    /\ HudIdle
    /\ BoardIdle

\* the car of this race, one frame before the end of the horizon
MidRace(pos, heading, motion, inp, n, fin) ==
    MidRaceOf(pos, heading, motion, inp, n, fin, CarSpeed, MaxRaceFrames - 1)

\* the countdown 50 ms before the go
MidCountdown(inp) ==
    /\ raceState = "countdown"
    /\ countdownStep = 1
    /\ countdownTimer = 19 * FrameMs
    /\ timerActive = FALSE
    /\ startTimeMs = 0
    /\ elapsedMs = 0
    /\ lastUpdateTime = 59 * FrameMs
    /\ currentLap = 0
    /\ lastCarT = 0
    /\ lapStartMs = 0
    /\ passed = ResetCheckpoints
    /\ bestSplits = [i \in 1 .. NumCp |-> Null]
    /\ bestTotalTime = Infinity
    /\ lapCheckpointIndex = 0
    /\ input = inp
    /\ physics = StartPose
    /\ events = << >>
    /\ calls = << "tickCountdown" >>
    /\ runFinishes = 0
    /\ lapCpLog = << >>
    /\ cdLog = << 3, 2, 1 >>
    /\ sinceStep = 19 * FrameMs
    /\ sinceStart = 59 * FrameMs
    /\ raceFrames = MaxRaceFrames - 1
    /\ oddFrames = 0
    /\ simMs = 0
    /\ bumped = FALSE
    /\ frameRequested = TRUE
    /\ listening = TRUE
    /\ destroyedIn = "no"
    /\ answers = Null
    /\ built = Constructor(Waypoints, CarSpeed)
    /\ lastProgress = 0
    /\ progressAtCheckpoint = FALSE
    /\ lapsSinceMid = 0
    /\ HudIdle
    /\ BoardIdle

InitMidRace ==
  \/ \E inp \in MidInputs : MidCountdown(inp)
  \/
    \E i \in MidSamples, f \in MidScales, h \in MidHeadings, m \in MidMotions,
       inp \in MidInputs :
        \/ MidRace(MidPos(i, f), h, m, inp, MidPassed(MidPos(i, f)), FALSE)
        \/ i * 100 < 12 * Samples /\ MidRace(MidPos(i, f), h, m, inp, 0, TRUE)

NextMidRace ==
    \/ \E gap \in JitterGaps : UpdateCountdown(gap, 0, MaxSessionFrames * FrameMs)
                              /\ Callbacks(FALSE)
    \/ \E gap \in JitterGaps : UpdateRacing(gap, 0, MaxSessionFrames * FrameMs)
                              /\ Callbacks(FALSE)
    \/ \E gap \in JitterGaps : UpdateFinished(gap, MaxSessionFrames * FrameMs)
                              /\ Callbacks(FALSE)

SpecMidRace == InitMidRace /\ [][NextMidRace]_vars

-----------------------------------------------------------------------------
(* The throttle & brake step alone, for every car of the selection screen *)

SpeedStats == 1 .. 5
ThrottleGaps == {0, FrameMs \div 2, FrameMs, 2 * FrameMs}

\* at rest, at top speed and at the reverse limit
ThrottleSpeeds(stat) == {0, MaxSpeedOf(stat), 0 - RoundDiv(MaxSpeedOf(stat) * 35, 100)}

InitThrottle ==
    \E stat \in SpeedStats : \E v \in ThrottleSpeeds(stat) :
        MidRaceOf(<< StartPose.x, StartPose.z >>, StartPose.heading, << v, 0 >>,
                  NoInput, 0, FALSE, stat, 0)

\* one tick of the throttle & brake step with the keys held, after gap ms
ThrottleTick(gap) ==
    /\ raceState = "racing"
    /\ raceFrames < MaxRaceFrames
    /\ raceFrames' = raceFrames + 1
    /\ physics' = [physics EXCEPT !.speed =
                      ThrottleStepOf(built.speed, physics.speed, Throttle(input),
                                     ClampDt(gap))]
    /\ simMs' = simMs + ClampDt(gap)
    /\ answers' = Null
    /\ UNCHANGED << lapVars, boardVars, hudVars >>
    /\ UNCHANGED << raceState, countdownStep, countdownTimer, timerActive,
                    startTimeMs, elapsedMs, lastUpdateTime, currentLap, lastCarT,
                    lapStartMs, passed, bestSplits, bestTotalTime,
                    lapCheckpointIndex, input, events, calls, runFinishes,
                    lapCpLog, cdLog, sinceStep, sinceStart, oddFrames, bumped,
                    frameRequested, listening, destroyedIn, built >>

NextThrottle ==
    \/ \E gap \in ThrottleGaps : ThrottleTick(gap)
    \/ \E k \in DriveKeys : KeyDown(k)
    \/ \E k \in DriveKeys : KeyUp(k)

SpecThrottle == InitThrottle /\ [][NextThrottle]_vars

-----------------------------------------------------------------------------
(* The lap-based variant of the engine: no countdown, the race starts on   *)
(* the first movement, laps are counted at the start line                  *)

LapSamples == 200       \* findClosestT: samples
MaxLapFrames == 4       \* frames explored after a (re)start of the variant
MaxLapClockFrames == 5  \* frames of FrameMs the frame clock may reach

\* updatePhysics: parameters
speedFactor == 800 + (CarSpeed - 1) * 150
handlingFactor == 800 + (CarHandling - 1) * 120
lapMaxSpeed == 22 * speedFactor
maxReverseSpeed == 0 - 8000
acceleration == 16 * speedFactor
braking == 24000
friction == 8000
steerSpeed == RoundDiv(1800 * handlingFactor, Milli)
driftFactor == 850 - (CarHandling - 1) * 40

\* the curve at the findClosestT samples, i in 0..LapSamples
LapSampleTable == [i \in 0 .. LapSamples |-> GetPoint(i, LapSamples)]

\* the first sample of minimum distance among the samples lo..hi
RECURSIVE LapClosestIn(_, _, _)
LapClosestIn(pos, lo, hi) ==
    IF lo = hi THEN lo
    ELSE LET mid == (lo + hi) \div 2
             a   == LapClosestIn(pos, lo, mid)
             b   == LapClosestIn(pos, mid + 1, hi)
         IN  IF Dist2(pos, LapSampleTable[b]) < Dist2(pos, LapSampleTable[a])
             THEN b ELSE a

\* findClosestT: the numerator of bestT over LapSamples
LapFindClosestT(pos) == LapClosestIn(pos, 0, LapSamples)

\* Speed update
LapThrottleStep(speed, throttle, dt) ==
    IF throttle > 0 THEN Min(speed + RoundDiv(acceleration * dt, Milli), lapMaxSpeed)
    ELSE IF throttle < 0 THEN
        IF speed > 0 THEN Max(speed - RoundDiv(braking * dt, Milli), 0)
        ELSE Max(speed - RoundDiv(acceleration * 6 * dt, 10 * Milli), maxReverseSpeed)
    ELSE IF speed > 0 THEN Max(speed - RoundDiv(friction * dt, Milli), 0)
         ELSE Min(speed + RoundDiv(friction * dt, Milli), 0)

\* speedRatio = |speed| / maxSpeed, in 1/1000
LapSpeedRatio(speed) == RoundDiv(Abs(speed) * Milli, lapMaxSpeed)

\* Steering (only when moving): the new heading
LapSteerStep(heading, speed, ratio, steer, dt) ==
    IF ratio > 10
    THEN heading + RoundDiv(steer * RoundDiv(steerSpeed * ratio, Milli)
                              * (IF speed > 0 THEN 1 ELSE -1) * dt, Milli)
    ELSE heading

\* Drift: the lateral velocity blended toward 0
LapBlend(lateralVelocity, ratio, dt) ==
    LET lateralBlend == Milli - RoundDiv(driftFactor * ISqrt(ratio * Milli), Milli)
        k == RoundDiv(lateralBlend * 5 * dt, Milli)
    IN  RoundDiv((Milli - k) * lateralVelocity, Milli)

\* Apply drift lateral velocity when cornering at speed
LapDrift(lateralVelocity, inp, ratio, dt) ==
    IF (inp.left \/ inp.right) /\ ratio > 400
    THEN lateralVelocity + (IF inp.left THEN 1 ELSE -1) * RoundDiv(ratio * 2 * dt, Milli)
    ELSE lateralVelocity

\* updatePhysics(dt) without the start of the race: the new physics state
LapUpdatePhysics(p, inp, dt) ==
    LET speed   == LapThrottleStep(p.speed, Throttle(inp), dt)
        ratio   == LapSpeedRatio(speed)
        steer   == IF inp.right THEN -1 ELSE IF inp.left THEN 1 ELSE 0
        heading == LapSteerStep(p.heading, speed, ratio, steer, dt)
        lv      == LapBlend(p.lateralVelocity, ratio, dt)
        vx      == RoundDiv(Sin(heading) * speed + Cos(heading) * lv, Milli)
        vz      == RoundDiv(Cos(heading) * speed - Sin(heading) * lv, Milli)
    IN  [ x |-> p.x + RoundDiv(vx * dt, Milli),
          z |-> p.z + RoundDiv(vz * dt, Milli),
          heading |-> heading,
          speed |-> speed,
          lateralVelocity |-> LapDrift(lv, inp, ratio, dt) ]

\* the start condition with the fault of starting on any movement
LapStartsOnAnySpeed(active, state, speed) ==
    ~active /\ state = "idle" /\ speed # 0

\* Start timer on first movement: the condition of startRace()
LapStarts(active, state, speed) ==
    ~active /\ state = "idle" /\ Abs(speed) > 100

\* placeCarAtStart: the pose
LapStartPose ==
    [ x |-> GetPoint(0, NumWp * 20)[1],
      z |-> GetPoint(0, NumWp * 20)[2],
      heading |-> Atan2(TangentAtWaypoint(0)[1], TangentAtWaypoint(0)[2]),
      speed |-> 0, lateralVelocity |-> 0 ]

\* onLapComplete(lap), onFinish(ms, lap)
EvLapComplete(lap) == [kind |-> "lap", lap |-> lap]
EvLapFinish(ms, lap) == [kind |-> "finish", totalMs |-> ms, lap |-> lap]

\* LapCheckLap with the fault of counting without looking at progressAtCheckpoint
LapCheckLapUnguarded(p, ms) ==
    LET closestT == LapFindClosestT(<< p.x, p.z >>)
        wasNearEnd == lastProgress * 100 > 85 * LapSamples
        isNearStart == closestT * 100 < 12 * LapSamples
        counted == wasNearEnd /\ isNearStart
        lap == IF counted THEN currentLap + 1 ELSE currentLap
        fin == counted /\ lap >= TotalLaps
    IN  [ physics |-> IF fin THEN [p EXCEPT !.speed = 0] ELSE p,
          raceState |-> IF fin THEN "finished" ELSE "racing",
          timerActive |-> ~fin,
          currentLap |-> lap,
          progressAtCheckpoint |->
              IF fin THEN TRUE
              ELSE IF closestT * 10 > 4 * LapSamples /\ closestT * 10 < 6 * LapSamples
                   THEN FALSE
              ELSE (counted \/ progressAtCheckpoint),
          lastProgress |-> IF fin THEN lastProgress ELSE closestT,
          events |-> (IF counted THEN << EvLapComplete(lap) >> ELSE << >>)
                     \o (IF fin THEN << EvLapFinish(ms, lap), EvStateChange("finished") >>
                         ELSE << >>) ]

\* checkLap() of a racing engine with the car at p, and finishRace()
LapCheckLap(p, ms) ==
    LET closestT == LapFindClosestT(<< p.x, p.z >>)
        wasNearEnd == lastProgress * 100 > 85 * LapSamples
        isNearStart == closestT * 100 < 12 * LapSamples
        counted == wasNearEnd /\ isNearStart /\ ~progressAtCheckpoint
        lap == IF counted THEN currentLap + 1 ELSE currentLap
        fin == counted /\ lap >= TotalLaps
    IN  [ physics |-> IF fin THEN [p EXCEPT !.speed = 0] ELSE p,
          raceState |-> IF fin THEN "finished" ELSE "racing",
          timerActive |-> ~fin,
          currentLap |-> lap,
          progressAtCheckpoint |->
              IF fin THEN TRUE
              ELSE IF closestT * 10 > 4 * LapSamples /\ closestT * 10 < 6 * LapSamples
                   THEN FALSE
              ELSE (counted \/ progressAtCheckpoint),
          lastProgress |-> IF fin THEN lastProgress ELSE closestT,
          events |-> (IF counted THEN << EvLapComplete(lap) >> ELSE << >>)
                     \o (IF fin THEN << EvLapFinish(ms, lap), EvStateChange("finished") >>
                         ELSE << >>) ]

\* the variant's fields: st is idle or racing, ms the elapsed time, lap the
\* laps completed, prog the progress at the last lap check, atCp whether a
\* lap has been counted with mid-track not seen since (two frames before
\* the end of the horizon), p the car
LapFields(st, ms, lap, prog, atCp, p) ==
    /\ raceState = st
    /\ timerActive = (st = "racing")
    /\ startTimeMs = IF st = "racing" THEN 20 * FrameMs - ms ELSE 0
    /\ elapsedMs = ms
    /\ lastUpdateTime = 20 * FrameMs
    /\ currentLap = lap
    /\ lastProgress = prog
    /\ progressAtCheckpoint = atCp
    /\ lapsSinceMid = (IF atCp THEN 1 ELSE 0)
    /\ BoardIdle
    /\ physics = p
    /\ input = NoInput
    /\ events = << >>
    /\ calls = << >>
    /\ raceFrames = (IF atCp THEN MaxLapFrames - 2 ELSE 0)
    /\ oddFrames = 0
    /\ simMs = 0
    /\ frameRequested = TRUE
    /\ listening = TRUE
    /\ destroyedIn = "no"
    /\ answers = Null
    /\ built = [ waypoints |-> Waypoints, speed |-> CarSpeed ]
    /\ countdownStep = 0
    /\ countdownTimer = 0
    /\ lastCarT = 0
    /\ lapStartMs = 0
    /\ passed = ResetCheckpoints
    /\ bestSplits = [i \in 1 .. NumCp |-> Null]
    /\ bestTotalTime = Infinity
    /\ lapCheckpointIndex = 0
    /\ runFinishes = 0
    /\ lapCpLog = << >>
    /\ cdLog = << >>
    /\ sinceStep = 0
    /\ sinceStart = 0
    /\ bumped = FALSE
    /\ HudIdle

\* what a frame of the variant never touches
LapFrameUnchanged ==
    UNCHANGED << countdownStep, countdownTimer, lastCarT, lapStartMs, passed,
                 bestSplits, bestTotalTime, lapCheckpointIndex, runFinishes,
                 lapCpLog, cdLog, sinceStep, sinceStart, bumped, boardVars, hudVars >>

\* the loop callback and update(dt, now) while the race is not finished:
\* updatePhysics with the start of the race, updateTimer, checkLap
UpdateLap(gap, delay, maxClock) ==
    /\ Loop(gap, maxClock)
    /\ raceState # "finished"
    /\ raceFrames < MaxLapFrames
    /\ raceFrames' = raceFrames + 1
    /\ simMs' = simMs + ClampDt(gap)
    /\ \E p \in {LapUpdatePhysics(physics, input, ClampDt(gap))} :
       \E starts \in {LapStarts(timerActive, raceState, p.speed)} :
       \E start \in {IF starts THEN lastUpdateTime + gap + delay - elapsedMs
                     ELSE startTimeMs} :
       \E ms \in {IF starts \/ timerActive THEN lastUpdateTime + gap - start
                  ELSE elapsedMs} :
        /\ startTimeMs' = start
        /\ elapsedMs' = ms
        /\ IF starts \/ raceState = "racing"
           THEN \E r \in {LapCheckLap(p, ms)} :
                /\ physics' = r.physics
                /\ raceState' = r.raceState
                /\ timerActive' = r.timerActive
                /\ currentLap' = r.currentLap
                /\ progressAtCheckpoint' = r.progressAtCheckpoint
                /\ lastProgress' = r.lastProgress
                /\ lapsSinceMid' = IF /\ r.raceState = "racing"
                                      /\ r.lastProgress * 10 > 4 * LapSamples
                                      /\ r.lastProgress * 10 < 6 * LapSamples
                                   THEN 0
                                   ELSE lapsSinceMid + Len(Kinds(r.events, "lap"))
                /\ events' = (IF starts THEN << EvStateChange("racing") >> ELSE << >>)
                             \o << EvTimer(ms) >> \o r.events
           ELSE /\ physics' = p
                /\ events' = IF timerActive THEN << EvTimer(ms) >> ELSE << >>
                /\ UNCHANGED << raceState, timerActive, currentLap, lapVars >>
    /\ calls' = << "updatePhysics", "updateTimer", "checkLap" >>
    /\ LapFrameUnchanged

\* the loop callback and update(dt, now) after the finish: an early return
UpdateLapFinished(gap, maxClock) ==
    /\ Loop(gap, maxClock)
    /\ raceState = "finished"
    /\ raceFrames < MaxLapFrames
    /\ raceFrames' = raceFrames + 1
    /\ events' = << >>
    /\ calls' = << >>
    /\ UNCHANGED << raceState, timerActive, startTimeMs, elapsedMs, currentLap,
                    physics, simMs, lapVars >>
    /\ LapFrameUnchanged

\* restart() of the variant
RestartLap ==
    /\ raceState' = "idle"
    /\ timerActive' = FALSE
    /\ elapsedMs' = 0
    /\ currentLap' = 0
    /\ lastProgress' = 0
    /\ progressAtCheckpoint' = FALSE
    /\ lapsSinceMid' = 0
    /\ physics' = LapStartPose
    /\ events' = << EvStateChange("idle"), EvTimer(0) >>
    /\ calls' = << "placeCarAtStart" >>
    /\ raceFrames' = 0
    /\ simMs' = 0
    /\ answers' = Null
    /\ UNCHANGED << startTimeMs, lastUpdateTime, input, oddFrames, frameRequested, listening, destroyedIn, built >>
    /\ LapFrameUnchanged

LapKeys == {"forward", "backward", "left"}
LapGaps == {FrameMs \div 10, FrameMs}

\* the last lap, the car on the centerline shortly before the start line at
\* top speed
LapLastLap ==
    [ x |-> LapSampleTable[LapSamples - 2][1], z |-> LapSampleTable[LapSamples - 2][2],
      heading |-> LapStartPose.heading, speed |-> lapMaxSpeed, lateralVelocity |-> 0 ]

\* the variant after construction, or on its last lap: coming round to the
\* start line, or gone back over the line after the lap before was counted
InitLap ==
    \/ LapFields("idle", 0, 0, 0, FALSE, LapStartPose)
    \/ \E atCp \in BOOLEAN :
          LapFields("racing", 18 * FrameMs, TotalLaps - 1, LapSamples - 2, atCp, LapLastLap)

NextLap ==
    \/ \E gap \in LapGaps :
          UpdateLap(gap, 0, (20 + MaxLapClockFrames) * FrameMs) /\ Callbacks(FALSE)
    \/ \E gap \in LapGaps :
          UpdateLapFinished(gap, (20 + MaxLapClockFrames) * FrameMs) /\ Callbacks(FALSE)
    \/ \E k \in LapKeys : KeyDown(k)
    \/ \E k \in LapKeys : KeyUp(k)
    \/ RestartLap

SpecLap == InitLap /\ [][NextLap]_vars

-----------------------------------------------------------------------------
(* /api/leaderboard: GET reads the table of a map, POST inserts a score    *)

Limit == 20             \* .limit(20)
MaxRows == 22           \* rows the table may hold

Digits == << "0", "1", "2", "3", "4", "5", "6", "7", "8", "9" >>
IsDigit(c) == \E d \in 1 .. 10 : Digits[d] = c
DigitOf(c) == (CHOOSE d \in 1 .. 10 : Digits[d] = c) - 1

RECURSIVE SkipSpace(_)
SkipSpace(cs) == IF cs # << >> /\ Head(cs) = " " THEN SkipSpace(Tail(cs)) ELSE cs

RECURSIVE DigitsValue(_, _)
DigitsValue(cs, acc) ==
    IF cs # << >> /\ IsDigit(Head(cs))
    THEN DigitsValue(Tail(cs), 10 * acc + DigitOf(Head(cs)))
    ELSE acc

\* parseInt(string) of a sequence of characters: white space is skipped, a
\* sign is read, then the longest run of decimal digits; Null stands for NaN
\* (no string here starts with 0x)
ParseInt(cs) ==
    LET t == SkipSpace(cs)
        signed == t # << >> /\ Head(t) \in {"-", "+"}
        u == IF signed THEN Tail(t) ELSE t
    IN  IF u = << >> \/ ~IsDigit(Head(u)) THEN Null
        ELSE IF signed /\ Head(t) = "-" THEN Some(0 - DigitsValue(u, 0))
        ELSE Some(DigitsValue(u, 0))

\* .eq('map_id', m): the rows of the table with that map_id
RowsOf(table, m) ==
    [ r \in { q \in BagToSet(table) : q.map_id = m } |-> table[r] ]

\* .order('time_ms', { ascending: true }): the rows as a sequence, fastest first
RECURSIVE OrderByTime(_)
OrderByTime(rows) ==
    IF BagToSet(rows) = {} THEN << >>
    ELSE LET r == CHOOSE q \in BagToSet(rows) :
                    \A o \in BagToSet(rows) : q.time_ms <= o.time_ms
         IN  << r >> \o OrderByTime(rows (-) SetToBag({r}))

\* the query of GET with the fault of a missing .limit(20)
SelectAll(table, m) == OrderByTime(RowsOf(table, m))

\* .from('leaderboard').select('*').eq('map_id', m).order('time_ms').limit(20)
Select(table, m) ==
    SubSeq(OrderByTime(RowsOf(table, m)), 1,
           Min(Limit, Len(OrderByTime(RowsOf(table, m)))))

\* the CHECK constraints of the table on map_id and time_ms
RowAccepted(row) == row.map_id >= 0 /\ row.map_id <= 4 /\ row.time_ms > 0

\* GET /api/leaderboard; mapId is Null without the map_id parameter, else its
\* characters. A map_id that parses to NaN is refused by the database.
GET(mapId) ==
    /\ response' =
         IF mapId = Null
         THEN [ request |-> "GET", map_id |-> mapId, status |-> 400, data |-> << >> ]
         ELSE IF ~supabase
         THEN [ request |-> "GET", map_id |-> mapId, status |-> 200, data |-> << >> ]
         ELSE IF ParseInt(mapId[1]) = Null
         THEN [ request |-> "GET", map_id |-> mapId, status |-> 500, data |-> << >> ]
         ELSE [ request |-> "GET", map_id |-> mapId, status |-> 200,
                data |-> Select(leaderboard, ParseInt(mapId[1])[1]) ]
    /\ UNCHANGED << engineVars, input, traceVars, hostVars, lapVars, hudVars,
                    supabase, leaderboard >>

\* POST /api/leaderboard with body.map_id (Null if undefined) and body.time_ms
POST(map_id, time_ms) ==
    /\ \E row \in { [ map_id |-> IF map_id = Null THEN 0 ELSE map_id[1],
                      time_ms |-> time_ms ] } :
       \E ok \in { map_id # Null /\ supabase /\ RowAccepted(row) } :
        /\ ok => BagCardinality(leaderboard) < MaxRows
        /\ leaderboard' = IF ok THEN leaderboard (+) SetToBag({row}) ELSE leaderboard
        /\ response' = [ request |-> "POST", map_id |-> map_id,
                         status |-> IF map_id = Null THEN 400
                                    ELSE IF ~supabase THEN 503
                                    ELSE IF ~RowAccepted(row) THEN 500
                                    ELSE 200,
                         data |-> IF ok THEN << row >> ELSE << >> ]
    /\ UNCHANGED << engineVars, input, traceVars, hostVars, lapVars, hudVars, supabase >>

MapIdParams ==
    { Null, Some(<< "0" >>), Some(<< "1" >>), Some(<< " ", "1", "a" >>),
      Some(<< "a" >>), Some(<< "-", "1" >>) }
PostMapIds == { Null, Some(0), Some(1), Some(5) }
PostTimes == { 0, 100, 200 }

\* the server with an empty table, Supabase configured or not; no engine runs
InitBoard ==
    /\ EngineFields
    /\ frameRequested = FALSE
    /\ listening = FALSE
    /\ destroyedIn = "no"
    /\ answers = Null
    /\ built = [ waypoints |-> Waypoints, speed |-> CarSpeed ]
    /\ supabase \in BOOLEAN
    /\ leaderboard = EmptyBag
    /\ response = Null

NextBoard ==
    \/ \E mapId \in MapIdParams : GET(mapId)
    \/ \E map_id \in PostMapIds, time_ms \in PostTimes : POST(map_id, time_ms)

SpecBoard == InitBoard /\ [][NextBoard]_vars

-----------------------------------------------------------------------------
(* Steps of a behaviour, told apart by what they change *)

\* an animation frame: the frame clock advances
TickStep == lastUpdateTime' # lastUpdateTime

\* a restart() call that changes anything but the keys
RestartStep ==
    /\ lastUpdateTime' = lastUpdateTime
    /\ << engineVars, traceVars >>' # << engineVars, traceVars >>

\* the callbacks the step invokes
Emitted == IF TickStep \/ RestartStep THEN events' ELSE << >>

\* the progress scalar of the car after the step is below 0.12
NearStartAfter ==
    FindClosestT(<< physics'.x, physics'.z >>) * 100 < 12 * Samples

\* the distance of the car to the nearest sampled point of the centerline
\* is at most half the track width
OnRoad ==
    Dist2(<< physics.x, physics.z >>,
          SampleTable[FindClosestT(<< physics.x, physics.z >>)])
        <= halfWidth * halfWidth

\* the constructor has been called
Constructed == "loop" \in DOMAIN built

\* all the waypoints lie on one line or in one point
Collinear(wp) ==
    \A i, j \in 1 .. Len(wp) :
        (wp[i][1] - wp[1][1]) * (wp[j][2] - wp[1][2])
            = (wp[j][1] - wp[1][1]) * (wp[i][2] - wp[1][2])

Degenerate(wp) == Len(wp) < 3 \/ Collinear(wp)

\* a racing frame that detects the lap crossing
Crossing ==
    /\ TickStep
    /\ raceState = "racing"
    /\ lastCarT * 100 > 88 * Samples
    /\ NearStartAfter

-----------------------------------------------------------------------------
(* The countdown under the frame loop: startLoop requests the next frame   *)
(* in every callback, so a frame that can run does run; restart() is       *)
(* called in the first frames only, destroy() never                        *)

\* the frame of a countdown, early or on time
CountdownFrame ==
    \E gap \in JitterGaps :
        /\ UpdateCountdown(gap, 0, (MaxEarlyFrames + 3 * (Milli \div FrameMs) + 1) * FrameMs)
        /\ Callbacks(FALSE)

RestartEarly == lastUpdateTime <= MaxEarlyFrames * FrameMs /\ Restart

NextCountdown ==
    \/ CountdownFrame
    \/ \E k \in DriveKeys : KeyDown(k)
    \/ \E k \in DriveKeys : KeyUp(k)
    \/ RestartEarly

SpecCountdown == Init /\ [][NextCountdown]_vars /\ WF_vars(CountdownFrame)

-----------------------------------------------------------------------------
(* The game page: GameCanvas with its engine, the finish screen and the    *)
(* leaderboard overlay, over a session of several runs                     *)

\* setShowLeaderboard(show) and the render after it
SetShowLeaderboard(show) ==
    /\ Len(posted \o AutoSubmit(FinishScreenShown(hudRaceState, showLeaderboard),
                                 FinishScreenShown(hudRaceState, show), finishTime))
         <= MaxPosts
    /\ showLeaderboard' = show
    /\ posted' = posted \o AutoSubmit(FinishScreenShown(hudRaceState, showLeaderboard),
                                       FinishScreenShown(hudRaceState, show), finishTime)
    /\ answers' = Null
    /\ UNCHANGED << engineVars, input, traceVars, frameRequested, listening, destroyedIn,
                    built, lapVars, boardVars, hudRaceState, hudBestTime, finishTime >>

\* onKey, e.key === 'Tab': setShowLeaderboard(prev => !prev)
TabKey == SetShowLeaderboard(~showLeaderboard)

\* the Leaderboard button of FinishScreen
OnShowLeaderboard ==
    /\ FinishScreenShown(hudRaceState, showLeaderboard)
    /\ SetShowLeaderboard(TRUE)

\* the close button of the Leaderboard overlay
OnClose ==
    /\ showLeaderboard
    /\ SetShowLeaderboard(FALSE)

NextCanvas ==
    \/ \E gap \in {FrameMs} : UpdateCountdown(gap, 0, MaxSessionFrames * FrameMs)
                           /\ Callbacks(FALSE)
    \/ \E gap \in {FrameMs} : UpdateRacing(gap, 0, MaxSessionFrames * FrameMs)
                           /\ Callbacks(FALSE)
    \/ \E gap \in {FrameMs} : UpdateFinished(gap, MaxSessionFrames * FrameMs)
                           /\ Callbacks(FALSE)
    \/ \E k \in DriveKeys : KeyDown(k)
    \/ \E k \in DriveKeys : KeyUp(k)
    \/ RestartAfterGo
    \/ TabKey
    \/ OnShowLeaderboard
    \/ OnClose

SpecCanvas == Init /\ [][NextCanvas]_vars

-----------------------------------------------------------------------------
(* Properties *)

\* C1: raceState changes only from countdown to racing (in a countdown tick,
\* the countdown counter going from 1 to 0), from racing to finished (in a
\* racing tick, the lap counter reaching TotalLaps), and from any state to
\* countdown (restart()); restart() always leaves the engine in countdown.
C1_StateTransitions ==
    [][ /\ raceState' # raceState =>
             \/ /\ raceState = "countdown" /\ raceState' = "racing"
                /\ TickStep
                /\ calls' = << "tickCountdown" >>
                /\ countdownStep = 1 /\ countdownStep' = 0
             \/ /\ raceState = "racing" /\ raceState' = "finished"
                /\ TickStep
                /\ calls' = << "updatePhysics", "updateTimer", "checkProgress" >>
                /\ currentLap = TotalLaps - 1 /\ currentLap' = TotalLaps
             \/ /\ raceState' = "countdown"
                /\ RestartStep
        /\ RestartStep => raceState' = "countdown"
      ]_vars

\* a run that went countdown -> racing -> finished and was restarted
C1_Witness ==
    /\ raceState = "countdown"
    /\ bestTotalTime < Infinity
    /\ calls = << "placeCarAtStart", "startCountdown" >>

\* C2: between two (re)starts onFinish is invoked at most once, exactly in the
\* tick that moves raceState from racing to finished, and it carries the
\* elapsedMs that this tick's updateTimer stored (what getElapsedMs() returns).
C2_FinishOnce ==
    [][ /\ Len(Kinds(Emitted, "finish")) <= 1
        /\ Len(Kinds(Emitted, "finish")) = 1
             <=> (TickStep /\ raceState = "racing" /\ raceState' = "finished")
        /\ Len(Kinds(Emitted, "finish")) = 1 =>
             /\ Kinds(Emitted, "finish")[1].totalMs = elapsedMs'
             /\ elapsedMs' = lastUpdateTime' - startTimeMs
        /\ runFinishes' <= 1
      ]_vars

\* the tick that finished the race has just run
C2_Witness ==
    /\ raceState = "finished"
    /\ runFinishes = 1
    /\ Kinds(events, "finish") = << EvFinish(elapsedMs) >>
    /\ elapsedMs > 0

\* C3: while finished, a tick invokes neither updatePhysics nor checkProgress
\* nor updateTimer, and no tick or key event changes elapsedMs, the pose, speed,
\* lateralVel, currentLap, the passed flags or the best records; speed and
\* lateralVel are 0 in every finished state.
C3_FinishedFrozen ==
    [][ /\ raceState = "finished" => physics.speed = 0 /\ physics.lateralVel = 0
        /\ raceState' = "finished" => physics'.speed = 0 /\ physics'.lateralVel = 0
        /\ (raceState = "finished" /\ ~RestartStep) =>
             /\ UNCHANGED << raceState, elapsedMs, physics, currentLap, passed,
                             bestSplits, bestTotalTime >>
             /\ TickStep => calls' = << >>
      ]_vars

\* a tick has run in the finished state with the throttle held
C3_Witness ==
    /\ raceState = "finished"
    /\ calls = << >>
    /\ input.forward

\* C4: restart() leaves the engine in countdown with elapsedMs 0, currentLap 0,
\* next-expected checkpoint 0, every passed flag false, speed 0, lateralVel 0 and
\* the car at the t = 0 track sample with the start heading; bestTotalTime and
\* the best splits keep their values.
C4_RestartResets ==
    [][ RestartStep =>
          /\ raceState' = "countdown"
          /\ elapsedMs' = 0
          /\ currentLap' = 0
          /\ lapCheckpointIndex' = 0
          /\ \A i \in 1 .. NumCp : ~passed'[i]
          /\ physics'.speed = 0
          /\ physics'.lateralVel = 0
          /\ << physics'.x, physics'.z >> = SampleTable[0]
          /\ physics'.heading = StartPose.heading
          /\ bestTotalTime' = bestTotalTime
          /\ bestSplits' = bestSplits
      ]_vars

\* restart() was called from finished, the records of the run are kept
C4_Witness ==
    /\ calls = << "placeCarAtStart", "startCountdown" >>
    /\ raceState = "countdown"
    /\ bestTotalTime < Infinity
    /\ bestSplits[1] # Null
    /\ currentLap = 0
    /\ lastUpdateTime > 0

\* C5: the checkpoint events since the last reset of the flags (lap completion
\* or restart) carry the indices 0, 1, 2, ... in this order, none skipped and
\* none twice; the index that fires is the next expected one and was unpassed.
C5_CheckpointOrder ==
    [][ /\ TickStep =>
             \A j \in 1 .. Len(CheckpointIndices(events')) :
                 /\ CheckpointIndices(events')[j] = Len(lapCpLog) + (j - 1)
                 /\ j = 1 => /\ CheckpointIndices(events')[j] = lapCheckpointIndex
                             /\ ~passed[lapCheckpointIndex + 1]
        /\ RestartStep => CheckpointIndices(events') = << >>
        /\ \A j \in 1 .. Len(lapCpLog') : lapCpLog'[j] = j - 1
      ]_vars

\* both checkpoints of the lap have fired, in order
C5_Witness == lapCpLog = << 0, 1 >> /\ lapCheckpointIndex = NumCp

\* C6: a checkpoint event for index i with split s (= elapsedMs), the best split
\* b before it: no b: deltaMs null, isBest, s becomes the best; s < b: deltaMs =
\* s - b < 0, isBest, s becomes the best; s > b: deltaMs = s - b > 0, not isBest,
\* b stays; s = b: deltaMs 0, not isBest, b stays.  isBest holds exactly when
\* deltaMs is null or negative.
C6_SplitDelta ==
    [][ TickStep =>
          \A j \in 1 .. Len(Kinds(events', "checkpoint")) :
              LET e == Kinds(events', "checkpoint")[j]
                  s == e.elapsedMs
                  b == bestSplits[e.index + 1]
              IN  /\ s = elapsedMs'
                  /\ b = Null =>
                       /\ e.deltaMs = Null /\ e.isBest
                       /\ bestSplits'[e.index + 1] = Some(s)
                  /\ (b # Null /\ s < Val(b)) =>
                       /\ e.deltaMs = Some(s - Val(b)) /\ e.isBest
                       /\ bestSplits'[e.index + 1] = Some(s)
                  /\ (b # Null /\ s > Val(b)) =>
                       /\ e.deltaMs = Some(s - Val(b)) /\ ~e.isBest
                       /\ bestSplits'[e.index + 1] = b
                  /\ (b # Null /\ s = Val(b)) =>
                       /\ e.deltaMs = Some(0) /\ ~e.isBest
                       /\ bestSplits'[e.index + 1] = b
                  /\ e.isBest <=> (e.deltaMs = Null \/ Val(e.deltaMs) < 0)
      ]_vars

\* a checkpoint was passed faster than the best of an earlier run
C6_Witness ==
    \E j \in 1 .. Len(events) :
        /\ events[j].kind = "checkpoint"
        /\ events[j].deltaMs # Null
        /\ Val(events[j].deltaMs) < 0
        /\ events[j].isBest
        /\ bestSplits[events[j].index + 1] = Some(events[j].elapsedMs)

\* C7: a racing tick invokes onLapComplete, once, exactly when the progress
\* stored by the previous racing tick is above 0.88 and the progress after this
\* tick is below 0.12; a racing tick that does not finish stores its progress,
\* so the next tick near the start fires no lap; no other step fires a lap.
C7_LapDetection ==
    [][ /\ (TickStep /\ raceState = "racing") =>
             /\ Kinds(events', "lap") # << >>
                  <=> (lastCarT * 100 > 88 * Samples /\ NearStartAfter)
             /\ Len(Kinds(events', "lap")) <= 1
             /\ raceState' = "racing" =>
                  lastCarT' = FindClosestT(<< physics'.x, physics'.z >>)
        /\ ((TickStep /\ raceState # "racing") \/ RestartStep) =>
             Kinds(events', "lap") = << >>
      ]_vars

\* the car backed over the line and crossed it forwards: one lap was counted
C7_Witness ==
    /\ raceState = "racing"
    /\ Len(Kinds(events, "lap")) = 1
    /\ lastCarT * 100 < 12 * Samples
    /\ physics.speed > 0

\* C8: the tick that detects a lap crossing adds 1 to currentLap, clears every
\* passed flag, sets the next-expected index to 0, sets lapStartMs to the time
\* of the tick and invokes onLapComplete with the new lap number and the time
\* since the previous lapStartMs; it finishes the race if the new lap number
\* has reached TotalLaps, and racing goes on otherwise.
C8_LapCrossing ==
    [][ Crossing =>
          /\ currentLap' = currentLap + 1
          /\ \A i \in 1 .. NumCp : ~passed'[i]
          /\ lapCheckpointIndex' = 0
          /\ lapStartMs' = lastUpdateTime'
          /\ Kinds(events', "lap")
               = << [ kind |-> "lap", lap |-> currentLap + 1,
                      lapTimeMs |-> lastUpdateTime' - lapStartMs ] >>
          /\ IF currentLap + 1 >= TotalLaps
             THEN raceState' = "finished" /\ Len(Kinds(events', "finish")) = 1
             ELSE raceState' = "racing" /\ Kinds(events', "finish") = << >>
      ]_vars

\* the first lap was completed and racing goes on
C8_Witness ==
    /\ raceState = "racing"
    /\ currentLap = 1
    /\ lapCheckpointIndex = 0
    /\ \E j \in 1 .. Len(events) :
           events[j].kind = "lap" /\ events[j].lap = 1 /\ events[j].lapTimeMs > 0

\* C9 as amended: since the last (re)start the countdown events carry 3, 2, 1,
\* 0 in this order, 3 at the (re)start and one further step in the tick in which
\* the clamped tick time accumulated since the (re)start reaches the next whole
\* second (the excess over a second is carried to the next step); no step is
\* skipped or repeated and raceState becomes racing in the tick that emits 0.
C9_CountdownSteps ==
    [][ /\ RestartStep => CountdownSteps(events') = << 3 >>
        /\ (TickStep /\ raceState = "countdown") =>
             /\ CountdownSteps(events')
                  = IF sinceStart' \div 1000 > sinceStart \div 1000
                    THEN << 3 - (sinceStart' \div 1000) >>
                    ELSE << >>
             /\ raceState' = "racing" <=> CountdownSteps(events') = << 0 >>
        /\ (TickStep /\ raceState # "countdown") => CountdownSteps(events') = << >>
        /\ cdLog' = SubSeq(<< 3, 2, 1, 0 >>, 1, Len(cdLog'))
      ]_vars

\* the go was reached through frames that arrived early
C9_Witness ==
    /\ raceState = "racing"
    /\ cdLog = << 3, 2, 1, 0 >>
    /\ oddFrames = MaxOddFrames
    /\ countdownTimer > 0

\* C9 as stated: the same, a further step being emitted exactly in the tick in
\* which the clamped tick time accumulated since the last step reaches a second.
C9_AsStated ==
    [][ /\ RestartStep => CountdownSteps(events') = << 3 >>
        /\ (TickStep /\ raceState = "countdown") =>
             /\ CountdownSteps(events')
                  = IF sinceStep + (sinceStart' - sinceStart) >= 1000
                    THEN << cdLog[Len(cdLog)] - 1 >>
                    ELSE << >>
             /\ raceState' = "racing" <=> CountdownSteps(events') = << 0 >>
        /\ (TickStep /\ raceState # "countdown") => CountdownSteps(events') = << >>
        /\ cdLog' = SubSeq(<< 3, 2, 1, 0 >>, 1, Len(cdLog'))
      ]_vars

\* C10: in countdown the car is at the start pose with speed 0 and lateralVel
\* 0, elapsedMs is 0, currentLap is 0 and no checkpoint is passed; a countdown
\* tick invokes tickCountdown only and changes none of these, whatever keys are
\* held.
C10_CountdownFrozen ==
    [][ /\ raceState = "countdown" =>
             /\ physics = StartPose
             /\ physics.speed = 0 /\ physics.lateralVel = 0
             /\ elapsedMs = 0 /\ currentLap = 0
             /\ \A i \in 1 .. NumCp : ~passed[i]
        /\ raceState' = "countdown" =>
             /\ physics' = StartPose
             /\ physics'.speed = 0 /\ physics'.lateralVel = 0
             /\ elapsedMs' = 0 /\ currentLap' = 0
             /\ \A i \in 1 .. NumCp : ~passed'[i]
        /\ (TickStep /\ raceState = "countdown") =>
             /\ calls' = << "tickCountdown" >>
             /\ UNCHANGED << physics, elapsedMs, currentLap, passed >>
      ]_vars

\* two seconds of the countdown have run with throttle and steering held
C10_Witness ==
    /\ raceState = "countdown"
    /\ countdownStep = 1
    /\ input.forward /\ input.left
    /\ calls = << "tickCountdown" >>
    /\ physics = StartPose

\* C11: after the boundary collision of every racing tick, whatever the keys
\* held and whatever the tick delta up to 50 ms, the car is no farther from
\* the nearest sampled point of the centerline than half the track width;
\* the same holds in the countdown and once finished, where the car is
\* not moved.
C11_StaysOnRoad == OnRoad

\* a frame whose collision step pushed the car back from the boundary
C11_Witness == bumped /\ raceFrames = MaxRaceFrames /\ physics.speed # 0

\* C12: once destroy() has been called, between frames or by a handler
\* during a frame, no further frame runs and no key event changes the input:
\* nothing of the engine changes any more, and a second destroy() changes
\* nothing either.
C12_DestroyStops ==
    [][ ~listening => UNCHANGED << engineVars, input, traceVars, frameRequested,
                                   listening, destroyedIn, built >> ]_vars

\* destroy() was called by a handler of the frame that started the race, with
\* a throttle key held
C12_Witness ==
    /\ destroyedIn = "frame"
    /\ ~frameRequested
    /\ raceState = "racing"
    /\ raceFrames = 0
    /\ input.forward

\* C16: reading getElapsedMs, getBestTime, getRaceState and getCurrentLap
\* changes nothing of the engine, and read before the first frame they
\* return 0, null, "countdown" and 0.
C16_QueriesPure ==
    [][ answers' # Null =>
          /\ UNCHANGED << engineVars, input, traceVars, frameRequested, listening,
                          destroyedIn, built >>
          /\ Val(answers') = [ elapsedMs |-> elapsedMs, bestTime |-> GetBestTime,
                               raceState |-> raceState, currentLap |-> currentLap ]
          /\ lastUpdateTime' = 0 =>
                Val(answers') = [ elapsedMs |-> 0, bestTime |-> Null,
                                  raceState |-> "countdown", currentLap |-> 0 ]
      ]_vars

\* the getters were read before the first frame, a throttle key already held
C16_Witness == answers # Null /\ lastUpdateTime = 0 /\ input.forward

\* C13: the delta handed to an update tick is the gap between the two frame
\* timestamps, and never more than 50 ms however large that gap is: in the
\* countdown the timer advances by it, in the race the physics is stepped
\* by it.
C13_DeltaClamped ==
    [][ TickStep =>
          /\ raceState = "countdown" =>
                /\ sinceStart' - sinceStart = Min(lastUpdateTime' - lastUpdateTime, FrameMs)
                /\ countdownTimer' <= countdownTimer + FrameMs
          /\ raceState = "racing" =>
                simMs' - simMs = Min(lastUpdateTime' - lastUpdateTime, FrameMs)
      ]_vars

\* the first racing frame came four frames late and stepped the physics by
\* 50 ms
C13_Witness ==
    /\ raceState = "racing"
    /\ raceFrames = 1
    /\ elapsedMs = 4 * FrameMs
    /\ simMs = FrameMs

\* C20: the elapsed time carried by the finish event is within one tick
\* (50 ms) of the sum of the tick deltas applied to the physics since the
\* go, for every sequence of frame timestamps.
C20_FinishTimeIsSimulatedTime ==
    \A j \in 1 .. Len(Kinds(events, "finish")) :
        Abs(Kinds(events, "finish")[j].totalMs - simMs) <= FrameMs

\* C14: a tick invokes each callback at most once: at most one countdown
\* step, one checkpoint (only the next expected gate can trigger, also when
\* the one after it is in reach as well), one lap, one finish, one state
\* change and one timer update.
C14_OneEventPerKind ==
    [][ TickStep =>
          /\ \A kind \in {"countdown", "checkpoint", "lap", "finish", "stateChange",
                          "timer"} : Len(Kinds(events', kind)) <= 1
          /\ \A j \in 1 .. Len(Kinds(events', "checkpoint")) :
                Kinds(events', "checkpoint")[j].index = lapCheckpointIndex
      ]_vars

\* a frame has triggered gate 0 with gate 1 in reach as well and not yet passed
C14_Witness ==
    /\ raceFrames = MaxRaceFrames
    /\ Len(Kinds(events, "checkpoint")) = 1
    /\ lapCheckpointIndex = 1
    /\ ~passed[2]
    /\ InReach(<< physics.x, physics.z >>, Checkpoints[2])

\* C15: restart() is accepted in countdown, racing and finished and always
\* leaves the engine in countdown at step 3 with the sub-second timer at 0,
\* announcing step 3 again; a restart() that directly follows a restart()
\* changes nothing.
C15_RestartAnywhere ==
    [][ /\ RestartStep =>
              /\ raceState' = "countdown"
              /\ countdownStep' = 3
              /\ countdownTimer' = 0
              /\ timerActive' = FALSE
              /\ events' = << EvCountdown(3), EvStateChange("countdown"), EvTimer(0) >>
        /\ calls = << "placeCarAtStart", "startCountdown" >>
             /\ lastUpdateTime' = lastUpdateTime
             => UNCHANGED << engineVars, traceVars >>
      ]_vars

\* restart() was called in the countdown, after step 2 or 1 had been announced
C15_Witness ==
    /\ calls = << "placeCarAtStart", "startCountdown" >>
    /\ startTimeMs = 0
    /\ lastUpdateTime >= 20 * FrameMs
    /\ countdownStep = 3
    /\ countdownTimer = 0
    /\ sinceStart = 0

\* C19: the best records only improve.  After every step the best split of
\* index i is the minimum of the best before the step and the splits the
\* step recorded at i, and bestTotalTime the minimum of its value before the
\* step and the finish time the step reported: so each is the minimum of all
\* the session's splits at i, resp. finish times, and never increases, over
\* laps, finishes and restarts alike; getBestTime() is null exactly until the
\* first finish.
C19_BestsOnlyImprove ==
    [][ LET MinOf(S) == CHOOSE x \in S : \A y \in S : x <= y
            Splits(i) == { Kinds(Emitted, "checkpoint")[j].elapsedMs :
                             j \in { k \in 1 .. Len(Kinds(Emitted, "checkpoint")) :
                                       Kinds(Emitted, "checkpoint")[k].index = i - 1 } }
            Finishes == { Kinds(Emitted, "finish")[j].totalMs :
                            j \in 1 .. Len(Kinds(Emitted, "finish")) }
            Known(b) == IF b = Null THEN {} ELSE {Val(b)}
        IN  /\ \A i \in 1 .. NumCp :
                  /\ Splits(i) = {} => bestSplits'[i] = bestSplits[i]
                  /\ Splits(i) # {} =>
                        bestSplits'[i] = Some(MinOf(Splits(i) \cup Known(bestSplits[i])))
                  /\ bestSplits[i] # Null =>
                        bestSplits'[i] # Null /\ Val(bestSplits'[i]) <= Val(bestSplits[i])
            /\ bestTotalTime' = MinOf(Finishes \cup {bestTotalTime})
            /\ bestTotalTime' <= bestTotalTime
            /\ GetBestTime' = Null <=> (GetBestTime = Null /\ Finishes = {})
            /\ GetBestTime' # Null => GetBestTime' = Some(bestTotalTime')
      ]_vars

\* a second run has finished slower than the first: the best total is kept
C19_Witness ==
    /\ raceState = "finished"
    /\ \E j \in 1 .. Len(events) :
           events[j].kind = "finish" /\ events[j].totalMs > bestTotalTime
    /\ GetBestTime = Some(bestTotalTime)

\* C17: the constructor called with fewer than 3 waypoints, or with waypoints
\* that are all collinear or coincident, fails with InvalidTrackGeometry and
\* starts no loop.
C17_DegenerateTrackRejected ==
    Constructed /\ Degenerate(built.waypoints)
        => /\ built.error = Some("InvalidTrackGeometry")
           /\ ~built.loop
           /\ ~frameRequested

\* C18: the constructor called with car stats that make the derived maximum
\* speed zero fails with InvalidVehicleConfig, and starts no loop whose ticks
\* would meet the fault.
C18_MalformedCarRejected ==
    Constructed /\ MaxSpeedOf(built.speed) <= 0
        => /\ built.error = Some("InvalidVehicleConfig")
           /\ ~built.loop
           /\ ~frameRequested

\* C21 (as amended): the track point table built at construction has
\* N + 1 entries, N = waypointCount x 24: one for each t = i / N, i = 0..N,
\* in steps of 1 / N; the last entry (t = 1) repeats the point of the first
\* (t = 0) on the closed curve, so N of the entries are at distinct
\* parameters of the lap.
C21_TrackTable ==
    Constructed =>
        LET n == Len(built.waypoints) * Density
            tp == built.trackPoints
        IN  /\ built.divisions = n
            /\ Len(tp) = n + 1
            /\ tp[1].t = 0
            /\ tp[n + 1].t = n
            /\ \A j \in 1 .. n : tp[j + 1].t - tp[j].t = 1
            /\ tp[n + 1].center = tp[1].center

\* a track of three waypoints that span a triangle has been built
C21_Witness ==
    /\ Constructed
    /\ Len(built.waypoints) = 3
    /\ ~Degenerate(built.waypoints)
    /\ Len(built.trackPoints) = 3 * Density + 1

\* C21 as stated: the table has exactly N = waypointCount x density entries
C21_AsStated ==
    Constructed => Len(built.trackPoints) = Len(built.waypoints) * Density

\* C22: the closest-point search returns a sample whose curve point is at
\* the minimum distance from the car among all samples, the smallest t among
\* the samples at that distance; the samples at t = 0 and t = 1 being the
\* same point, the progress it reports (and the one the engine keeps) is
\* below 1.
C22_ClosestSample ==
    \E t \in {FindClosestT(<< physics.x, physics.z >>)} :
        /\ t \in 0 .. Samples - 1
        /\ \A i \in 0 .. Samples :
              /\ Dist2(<< physics.x, physics.z >>, SampleTable[t])
                    <= Dist2(<< physics.x, physics.z >>, SampleTable[i])
              /\ Dist2(<< physics.x, physics.z >>, SampleTable[t])
                    = Dist2(<< physics.x, physics.z >>, SampleTable[i]) => t <= i
        /\ SampleTable[Samples] = SampleTable[0]
        /\ lastCarT < Samples
        /\ raceState = "racing" => lastCarT = t

\* a racing frame has left the car nearest to the start line, where the
\* samples at t = 0 and t = 1 are equally near
C22_Witness ==
    /\ raceState = "racing"
    /\ raceFrames = MaxRaceFrames
    /\ lastCarT = 0
    /\ << physics.x, physics.z >> # SampleTable[0]

\* C23: after every physics tick the lateral velocity is within 0.75 x
\* maxSpeed either way, whatever the keys, braking while steering and
\* collisions with the boundary included.
C23_LateralBounded ==
    /\ physics.lateralVel <= RoundDiv(maxSpeed * 75, 100)
    /\ physics.lateralVel >= 0 - RoundDiv(maxSpeed * 75, 100)

\* a frame with the brake and a steering key held at full slide, where the
\* clamp keeps the lateral velocity at the limit
C23_Witness ==
    /\ raceFrames = MaxRaceFrames
    /\ raceState = "racing"
    /\ input.backward /\ input.right
    /\ physics.lateralVel = maxLateral
    /\ physics.speed > 3000

\* a tick of the throttle & brake step with neither forward nor backward held
\* and a delta above 0
CoastStep ==
    /\ raceFrames' # raceFrames
    /\ simMs' > simMs
    /\ ~input.forward /\ ~input.backward

\* C24: while neither forward nor backward is held, each racing tick with a
\* delta in (0, 0.05] s moves the speed toward zero without changing its sign,
\* and a speed of exactly 0 stays 0.
C24_CoastsToRest ==
    [][CoastStep =>
        /\ Sign(physics'.speed) \in {0, Sign(physics.speed)}
        /\ Abs(physics'.speed) <= Abs(physics.speed)]_vars

\* C25: after every tick the forward speed is at most maxSpeed and at least
\* -0.35 x maxSpeed, for every key sequence, every delta in [0, 0.05] s and
\* every car with speed stat 1..5.
C25_SpeedWithinLimits ==
    /\ physics.speed <= MaxSpeedOf(built.speed)
    /\ physics.speed >= 0 - RoundDiv(MaxSpeedOf(built.speed) * 35, 100)

\* the fastest car held at top speed by the cap, forward held through all ticks
C25_Witness ==
    /\ raceFrames = MaxRaceFrames
    /\ built.speed = 5
    /\ input.forward /\ ~input.backward
    /\ physics.speed = MaxSpeedOf(5)

\* C26: no sequence of keydown and keyup events leaves forward and backward
\* both held in the captured input.
C26_ThrottleExclusive == ~(input.forward /\ input.backward)

\* C27: the lap-based variant is idle with the timer stopped at 0 until the
\* first tick that leaves |speed| above 0.1; that tick, and no other step,
\* starts the timer and makes the state racing; restart() leaves the engine
\* idle with elapsedMs 0.
C27_StartsOnFirstMovement ==
    /\ [](raceState = "idle" => elapsedMs = 0 /\ ~timerActive)
    /\ [][raceState = "idle" =>
            /\ (raceState' = "racing")
                 = (TickStep /\ Abs(physics'.speed) > 100)
            /\ timerActive' = (raceState' = "racing")
            /\ raceState' \in {"idle", "racing"}]_vars
    /\ [][RestartStep => raceState' = "idle" /\ elapsedMs' = 0 /\ ~timerActive']_vars

\* the second tick starts the race: the first one moved the car but left the
\* speed at 0.088
C27_Witness ==
    /\ raceState = "racing" /\ timerActive
    /\ raceFrames = 2
    /\ simMs = 2 * (FrameMs \div 10)
    /\ elapsedMs = 0
    /\ physics.speed > 100

\* the stored rows of map m
StoredOf(m) == RowsOf(leaderboard, m)

\* how many of the rows seq have the time t
TimesIn(seq, t) == Cardinality({ i \in 1 .. Len(seq) : seq[i].time_ms = t })

\* C28: a leaderboard read for a map returns only rows of that map, in
\* ascending order of time_ms, at most 20 of them, and they are the fastest
\* rows stored for that map.
C28_TopTwenty ==
    \A m \in 0 .. 4 :
        ( /\ response # Null
          /\ response.request = "GET"
          /\ response.map_id = Some(<< Digits[m + 1] >>)
          /\ supabase )
        => /\ response.status = 200
           /\ \A i \in 1 .. Len(response.data) : response.data[i].map_id = m
           /\ \A i, j \in 1 .. Len(response.data) :
                 i < j => response.data[i].time_ms <= response.data[j].time_ms
           /\ Len(response.data) <= 20
           /\ Len(response.data) = Min(20, BagCardinality(StoredOf(m)))
           /\ \A r \in BagToSet(StoredOf(m)) :
                 \/ TimesIn(response.data, r.time_ms) = StoredOf(m)[r]
                 \/ /\ TimesIn(response.data, r.time_ms) < StoredOf(m)[r]
                    /\ \A i \in 1 .. Len(response.data) :
                          response.data[i].time_ms <= r.time_ms

\* a read of map 0 that returns 20 of its 21 rows, both times among them,
\* while the table also holds a row of map 1
C28_Witness ==
    /\ response # Null
    /\ response.request = "GET"
    /\ response.map_id = Some(<< "0" >>)
    /\ Len(response.data) = 20
    /\ response.data[1].time_ms = 100
    /\ response.data[20].time_ms = 200
    /\ BagCardinality(StoredOf(0)) = 21
    /\ BagCardinality(StoredOf(1)) = 1

\* C30: a lap crossing is counted only in a lap in which every checkpoint of
\* the map has been passed: when the lap counter goes up, the next-expected
\* checkpoint index (the checkpoint of this tick included) equals the number
\* of checkpoints.
C30_LapNeedsCheckpoints ==
    [][TickStep /\ currentLap' = currentLap + 1 =>
        lapCheckpointIndex + Len(Kinds(events', "checkpoint")) = NumCp]_vars


\* C33: in every reachable state the next-expected checkpoint index lies in
\* 0 .. numCp, and checkpoint i (counted from 0) is marked passed exactly
\* when i is smaller than that index
C33_CheckpointBookkeeping ==
    /\ lapCheckpointIndex \in 0 .. NumCp
    /\ \A i \in 1 .. NumCp : passed[i] <=> i <= lapCheckpointIndex

\* a gate is passed again on the lap after a crossing has reset the flags
C33_Witness ==
    /\ currentLap >= 1
    /\ lapCheckpointIndex >= 1
    /\ passed[1]
    /\ raceState = "racing"


\* C34: in every reachable state 0 <= currentLap <= totalLaps; currentLap is 0
\* in countdown, below totalLaps while racing, and equal to totalLaps exactly
\* when the race is finished; the timer is active exactly when racing
C34_LapCounterAndTimer ==
    /\ TotalLaps >= 1
    /\ currentLap \in 0 .. TotalLaps
    /\ raceState = "countdown" => currentLap = 0
    /\ raceState = "racing" => currentLap < TotalLaps
    /\ raceState = "finished" <=> currentLap = TotalLaps
    /\ timerActive <=> raceState = "racing"

\* a race that has counted a lap, gone on racing, and finished
C34_Witness ==
    /\ raceState = "finished"
    /\ currentLap = TotalLaps
    /\ ~timerActive
    /\ Len(Kinds(events, "finish")) = 1


\* the callbacks of the step other than onTimerUpdate, in the order of the calls
Progressed == SelectSeq(Emitted, LAMBDA e : e.kind # "timer")

\* the place of the first callback equal to ev among evs, 0 if there is none
FirstAt(evs, ev) ==
    IF \E j \in 1 .. Len(evs) : evs[j] = ev
    THEN CHOOSE j \in 1 .. Len(evs) :
            /\ evs[j] = ev
            /\ \A k \in 1 .. j - 1 : evs[k] # ev
    ELSE 0

\* C32: the tick that completes the final lap emits, in this order, at most
\* one checkpoint, the lap completion with lap = totalLaps, the finish and
\* the state change to finished; the go tick emits the countdown step 0
\* before the state change to racing; restart() emits the countdown step 3
\* before the state change to countdown
C32_EventOrder ==
    [][/\ TickStep /\ raceState = "racing" /\ raceState' = "finished" =>
            /\ Len(Progressed) \in {3, 4}
            /\ Len(Progressed) = 4 => Progressed[1].kind = "checkpoint"
            /\ Progressed[Len(Progressed) - 2].kind = "lap"
            /\ Progressed[Len(Progressed) - 2].lap = TotalLaps
            /\ Progressed[Len(Progressed) - 1].kind = "finish"
            /\ Progressed[Len(Progressed)] = EvStateChange("finished")
       /\ TickStep /\ raceState = "countdown" /\ raceState' = "racing" =>
            /\ FirstAt(Emitted, EvCountdown(0)) >= 1
            /\ FirstAt(Emitted, EvCountdown(0))
                 < FirstAt(Emitted, EvStateChange("racing"))
       /\ RestartStep =>
            /\ FirstAt(Emitted, EvCountdown(3)) >= 1
            /\ FirstAt(Emitted, EvCountdown(3))
                 < FirstAt(Emitted, EvStateChange("countdown"))]_vars

\* the race has just finished in a tick that also passed a checkpoint
C32_Witness ==
    /\ raceState = "finished"
    /\ Len(Kinds(events, "checkpoint")) = 1
    /\ Len(Kinds(events, "finish")) = 1


\* the throttle the four key flags stand for: backward wins over forward
KeysThrottle ==
    IF input.forward /\ input.backward THEN -1
    ELSE IF input.forward THEN 1
    ELSE IF input.backward THEN -1
    ELSE 0

\* the steer input the four key flags stand for: right wins over left
KeysSteer ==
    IF input.left /\ input.right THEN -1
    ELSE IF input.left THEN 1
    ELSE IF input.right THEN -1
    ELSE 0

\* C37: the throttle and the steer input a racing tick uses are functions of
\* the four key flags alone, with backward winning over forward and right
\* over left, whatever the order of the key presses that set the flags: a
\* tick that neither hits the boundary nor finishes the race leaves the
\* speed and the heading these values give
C37_InputsDecide ==
    [][TickStep /\ raceState = "racing" /\ raceState' = "racing" /\ ~bumped' =>
        /\ physics'.speed
             = ThrottleStep(physics.speed, KeysThrottle,
                            ClampDt(lastUpdateTime' - lastUpdateTime))
        /\ physics'.heading
             = SteerStep(physics.heading, physics'.speed, SpeedRatio(physics.speed),
                         KeysSteer, ClampDt(lastUpdateTime' - lastUpdateTime))]_vars

\* all four keys are held and the car has reversed and turned
C37_Witness ==
    /\ raceState = "racing"
    /\ input.forward /\ input.backward /\ input.left /\ input.right
    /\ physics.speed < 0
    /\ physics.heading # StartPose.heading
    /\ ~bumped


\* the speed of the car once the throttle of the tick has acted, which is
\* the value physics.speed has where steerDir is computed
SpeedAtSteering ==
    ThrottleStep(physics.speed, Throttle(input),
                 ClampDt(lastUpdateTime' - lastUpdateTime))

C39_OneLapPerPass == lapsSinceMid <= 1

\* the car has come over the start line again after a counted lap, mid-track
\* not seen in between, and the crossing has not been counted
C39_Witness ==
    /\ raceState = "racing"
    /\ raceFrames >= 1
    /\ lapsSinceMid = 1
    /\ currentLap = TotalLaps - 1
    /\ lastProgress * 100 < 12 * LapSamples
    /\ calls = << "updatePhysics", "updateTimer", "checkLap" >>


\* C31: each finished run submits its time to the leaderboard exactly once,
\* however often the leaderboard overlay is opened and closed while the race
\* is finished: between two restarts at most one POST is sent, and one has
\* been sent whenever the finish screen is shown
C31_SubmitsOnce ==
    /\ Len(posted) <= 1
    /\ FinishScreenShown(hudRaceState, showLeaderboard) => Len(posted) = 1

\* C38: once the engine callbacks of a frame have run, and after every
\* restart GameCanvas handles, the raceState of the component is the
\* raceState of the engine (countdown, racing or finished) and its bestTime
\* is the best total time of the engine, null before the first finish
C38_HudMirrorsEngine ==
    /\ hudRaceState = GetRaceState
    /\ hudRaceState \in {"countdown", "racing", "finished"}
    /\ hudBestTime = GetBestTime

\* a second run has finished slower than the first: the component shows the
\* time of the first as the best
C38_Witness ==
    /\ hudRaceState = "finished"
    /\ hudBestTime # Null
    /\ finishTime > Val(hudBestTime)


\* C35: with ticks of positive delta going on and no restart() or destroy()
\* any more, an engine in countdown eventually is racing; it leaves the
\* countdown exactly in the tick in which the clamped tick time accumulated
\* since the (re)start reaches 3 s, each tick adding at most 50 ms, hence not
\* before the 60th tick
C35_CountdownEnds ==
    /\ [](raceState = "countdown" => sinceStart < 3 * Milli)
    /\ [][TickStep /\ raceState = "countdown" =>
            /\ (raceState' = "racing") = (sinceStart' >= 3 * Milli)
            /\ sinceStart' - sinceStart \in 1 .. FrameMs]_vars
    /\ (raceState = "countdown" ~> raceState = "racing")

\* the go of a countdown that was restarted and then had an early frame
C35_Witness ==
    /\ raceState = "racing"
    /\ sinceStart = 3 * Milli + FrameMs \div 2
    /\ lastUpdateTime > sinceStart

====
